---- MODULE Spec2Model ----
(***************************************************************************)
(* Laura chess engine: the search core.                                    *)
(*                                                                         *)
(*  Part I   thread pool, cooperative stop protocol, iterative deepening   *)
(*           and aspiration windows (thread.rs, timer.rs, search.rs,       *)
(*           uci.rs).                                                      *)
(*  Part II  the lockless transposition table (transposition.rs).          *)
(*                                                                         *)
(* The tree below the root is abstracted: a root search visits one child   *)
(* per legal root move, every node polls stop_hard as in the code, and the *)
(* value a completed root search returns is drawn from Scores.  A          *)
(* principal variation is represented by the sequence holding its first    *)
(* move (the only element the pool reads).                                 *)
(***************************************************************************)
EXTENDS Integers, Sequences, FiniteSets, TLC

(* ------------------------------ constants (config.rs) ------------------ *)
INFINITY == 32001
MATE == 32000
MAX_PLY == 128
ASPIRATION_MARGIN == 25
ASPIRATION_DEPTH_THRESHOLD == 5
MAX_DELTA == 1025
MOVE_OVERHEAD == 50
NODE_BATCH == 1024
TTMATE == 30000
AGE_OFFSET == 3
BOUND_OFFSET == 1
ENTRIES_PER_CELL == 3
MAX_AGE == 32
AGE_MASK == MAX_AGE - 1
\* enum BoundType
BoundNone == 0
Exact == 1
LowerBound == 2
UpperBound == 3
\* Move::null()
NullMove == 0

(* ------------------------------ bounds --------------------------------- *)
\* workers in the pool (threads = MaxWorkers + 1)
MaxWorkers == 1
\* legal moves at the root
MaxMoves == 2
\* iterations followed when workers run beside the main thread
MaxIter == 2
\* iterations followed when the main thread searches alone
SoloIter == 5
\* cells of the table (megabytes * MEGABYTE / size_of::<Cell>(), scaled down)
TableLen == 2
\* threads that use the table at the same time
MaxTTThreads == 2
\* probes and inserts issued in one concurrent run
MaxTTOps == 3

Threads == 0 .. MaxWorkers
None == 0
Scores == {2 - MATE, 0, MATE - 1}
ClockValues == {0, 1, MOVE_OVERHEAD + 1}

Depth(d) == [kind |-> "Depth", v |-> d]
MoveTime(t) == [kind |-> "MoveTime", v |-> t]
Nodes(n) == [kind |-> "Nodes", v |-> n]
Infinite == [kind |-> "Infinite", v |-> 0]

IterCap(n) == IF n = 0 THEN SoloIter ELSE MaxIter

TimeControls(n) ==
    {Depth(d) : d \in 0 .. IterCap(n)}
        \cup {MoveTime(t) : t \in {MOVE_OVERHEAD, MOVE_OVERHEAD + 1}}
        \cup {Nodes(n0) : n0 \in 0 .. 1}
        \cup {Infinite}

VARIABLES phase, stop, nodes, time_control, nworkers, nmoves, elapsed, th,
          best_move

\* the transposition table, its callers, and the record of what was inserted
VARIABLES cells, age, tth, calls, written, panicked, issued, hf

poolvars == <<phase, stop, nodes, time_control, nworkers, nmoves, elapsed, th,
              best_move>>

ttvars == <<cells, age, tth, calls, written, panicked, issued, hf>>

\* one search thread walking its tree
VARIABLES ab

abvars == <<ab>>

\* a move picker, a killer table and a position driven on their own, and
\* the command loop
VARIABLES mp, kt, pos, uci

unitvars == <<mp, kt, pos>>

Off == [pc |-> "off"]

\* no walk is under way
ABQuiet == ab = Off

UnitsQuiet == mp = Off /\ kt = Off /\ pos = Off

UciQuiet == uci = Off

\* the bytes of the table while clear runs, what the listener thread has
\* done since it sent the go command, one call of aspiration_window, and
\* the node counters of a search
VARIABLES clr, lst, asp, nc, tm, tp, pvl

auxvars == <<clr, lst, asp, nc, tm, tp, pvl>>

AuxQuiet ==
    /\ clr = Off /\ lst = Off /\ asp = Off /\ nc = Off /\ tm = Off
    /\ tp = Off /\ pvl = Off

\* what the pool's steps, and the table's steps, leave alone
poolrest == <<ttvars, abvars, unitvars, uci, auxvars>>
ttrest == <<poolvars, abvars, unitvars, uci, auxvars>>

vars == <<poolvars, ttvars, abvars, unitvars, uci, auxvars>>

Min(a, b) == IF a < b THEN a ELSE b
Max(a, b) == IF a > b THEN a ELSE b

(* ------------------------------ Thread --------------------------------- *)
NewThread(t) ==
    [pc |-> "idle", d |-> 0, depth |-> 0, completed |-> 0,
     principal_variation |-> <<>>, score |-> 0, nodes |-> 0, buffer |-> 0,
     alpha |-> 0, beta |-> 0, delta |-> 0, root_pv |-> <<>>, rscore |-> 0,
     kids |-> 0, in_child |-> FALSE, sentinel |-> FALSE, poll |-> FALSE,
     lines |-> 0, committed |-> 0]

set_up(r) ==
    [r EXCEPT !.principal_variation = <<>>, !.buffer = 0, !.nodes = 0,
              !.score = 0, !.depth = 0, !.completed = 0,
              !.lines = 0, !.committed = 0]

\* Workers keep the time manager Thread::smp gave them; start_search
\* replaces the main thread's only.
TimeControlOf(t) == IF t = 0 THEN time_control ELSE Infinite

soft_limit(tc) ==
    IF tc.kind = "MoveTime" THEN tc.v - Min(MOVE_OVERHEAD, tc.v) ELSE 0

hard_limit(tc) == soft_limit(tc)

not_search(tc) == tc.kind = "MoveTime" /\ hard_limit(tc) = 0

start_depth(t) == (t % 8) + 1

max_depth(t) ==
    IF TimeControlOf(t).kind = "Depth" THEN TimeControlOf(t).v ELSE MAX_PLY

\* the match of stop_soft
SoftFires(tc, el, n) ==
    CASE tc.kind = "MoveTime" -> el >= soft_limit(tc)
      [] tc.kind = "Nodes" -> n >= tc.v
      [] OTHER -> FALSE

\* the match of stop_hard
HardFires(tc, el, n, s) ==
    CASE tc.kind \in {"Depth", "Infinite"} -> s
      [] tc.kind = "MoveTime" -> el >= tc.v
      [] tc.kind = "Nodes" -> n >= tc.v

\* mutant: the poll stores its verdict whether or not it fired
StopStore_Unconditional(fired, cur) == fired

\* if stop { self.stop.store(true) }
StopStore(fired, cur) == IF fired THEN TRUE ELSE cur

\* mutant: the main thread leaves the flag as it found it
MainStopValue_Unset == stop

\* the value the main thread stores once iterative_deepening has returned
MainStopValue == TRUE

\* mutant: aspiration_window does not look at the flag
AspStopped_Ignored(s) == FALSE

\* thread.time_manager.stopped() as read by aspiration_window
AspStopped(s) == s

ExitPc(t) == IF t = 0 THEN "exit" ELSE "done"

Upd(t, r) == th' = [th EXCEPT ![t] = r]


(* ------------------------------ transposition table: data -------------- *)
\* A 64-bit key is kept as its bit fields: hi = bits 48..63, mid = bits
\* 16..47, lo = bits 0..15.  Every key used has mid < 2^16, so the part of
\* the key below bit 48 is smaller than 2^32 and cannot carry into the
\* index for any table length below 2^16.
Key(hi, mid, lo) == [hi |-> hi, mid |-> mid, lo |-> lo]

\* (key & KEY_WRAPPER_MASK) as u16
wrap_key(key) == key.lo

\* ((key as u128 * len as u128) >> 64) as usize
index(key, len) == (key.hi * len) \div 65536

\* x as i16
ToI16(x) == ((x + 32768) % 65536) - 32768

\* mutant: the negative branch adds the ply as the positive branch does
normalize_score_SameSign(score, ply) ==
    IF score >= TTMATE THEN ToI16(score + ply)
    ELSE IF score <= -TTMATE THEN ToI16(score + ply)
    ELSE ToI16(score)

normalize_score(score, ply) ==
    IF score >= TTMATE THEN ToI16(score + ply)
    ELSE IF score <= -TTMATE THEN ToI16(score - ply)
    ELSE ToI16(score)

\* mutant: every positive score is taken for a mate score
unnormalize_score_AnyPositive(score, ply) ==
    IF score > 0 THEN score - ply
    ELSE IF score <= -TTMATE THEN score + ply
    ELSE score

unnormalize_score(score, ply) ==
    IF score >= TTMATE THEN score - ply
    ELSE IF score <= -TTMATE THEN score + ply
    ELSE score

\* PackedData::new: (age << AGE_OFFSET) | (bound << BOUND_OFFSET) | pv, in u8
PackedData(a, bound, pv_node) ==
    ((a * 2^AGE_OFFSET) % 256) + bound * 2^BOUND_OFFSET
        + (IF pv_node THEN 1 ELSE 0)

PackedAge(data) == data \div 2^AGE_OFFSET
PackedBound(data) == (data \div 2^BOUND_OFFSET) % 4
PackedPvNode(data) == data % 2 # 0

\* struct Entry, and its two atomic words on a little-endian target: the
\* u64 holds bytes 0..7 (key, mv, score, evaluation), the u16 bytes 8..9
\* (depth, data)
Entry(key, mv, score, evaluation, depth, data) ==
    [key |-> key, mv |-> mv, score |-> score, evaluation |-> evaluation,
     depth |-> depth, data |-> data]

DataWord(e) ==
    [key |-> e.key, mv |-> e.mv, score |-> e.score,
     evaluation |-> e.evaluation]

KeyWord(e) == [depth |-> e.depth, data |-> e.data]

FromWords(d, k) == Entry(d.key, d.mv, d.score, d.evaluation, k.depth, k.data)

ZeroEntry == Entry(0, NullMove, 0, 0, 0, 0)

ZeroSlot == [d |-> DataWord(ZeroEntry), k |-> KeyWord(ZeroEntry)]

\* alloc_zeroed / write_bytes(0): len cells of ENTRIES_PER_CELL zero slots
ZeroTable(len) == [c \in 1 .. len |-> [i \in 1 .. ENTRIES_PER_CELL |-> ZeroSlot]]

\* the EntryHit probe builds from a matching entry
EntryHit(entry, ply) ==
    [mv |-> entry.mv, score |-> unnormalize_score(entry.score, ply),
     evaluation |-> entry.evaluation, depth |-> entry.depth,
     bound |-> PackedBound(entry.data), pv_node |-> PackedPvNode(entry.data)]

\* the arguments of insert; probe uses key and ply only
Args(key, mv, score, evaluation, depth, bound, pv_node, ply) ==
    [key |-> key, mv |-> mv, score |-> score, evaluation |-> evaluation,
     depth |-> depth, bound |-> bound, pv_node |-> pv_node, ply |-> ply]

ProbeArgs(key, ply) == Args(key, NullMove, 0, 0, 0, BoundNone, FALSE, ply)

NoRes == [kind |-> "none", key |-> Key(0, 0, 0), ply |-> 0, entry |-> ZeroEntry]

TTThreads == 1 .. MaxTTThreads

IdleOp ==
    [pc |-> "idle", a |-> ProbeArgs(Key(0, 0, 0), 0), age |-> 0, i |-> 0,
     ld |-> DataWord(ZeroEntry), entry |-> ZeroEntry, store_index |-> 0,
     new |-> ZeroEntry, res |-> NoRes]

\* hash_full: not running, no value returned yet
HfIdle == [pc |-> "idle", age |-> 0, c |-> 0, i |-> 0, counter |-> 0,
           prev |-> 0, ret |-> 0, calls |-> 0]

\* the table as uci_loop leaves it before the first command
TTQuiet ==
    /\ cells = ZeroTable(TableLen)
    /\ age = 0
    /\ tth = [t \in TTThreads |-> IdleOp]
    /\ calls = {}
    /\ written = {}
    /\ panicked = FALSE
    /\ issued = 0
    /\ hf = HfIdle

(* ------------------------------ start_search --------------------------- *)
Init ==
    /\ phase = "idle"
    /\ stop \in BOOLEAN
    /\ nodes = 0
    /\ nworkers \in 0 .. MaxWorkers
    /\ time_control \in TimeControls(nworkers)
    /\ nmoves \in 0 .. MaxMoves
    /\ elapsed = 0
    /\ th = [t \in Threads |-> NewThread(t)]
    /\ best_move = None
    /\ TTQuiet
    /\ ABQuiet
    /\ UnitsQuiet
    /\ UciQuiet
    /\ AuxQuiet

StartSearch ==
    /\ phase = "idle"
    /\ elapsed' = 0
    /\ IF nmoves = 0
         THEN /\ best_move' = None
              /\ phase' = "returned"
              /\ UNCHANGED <<stop, nodes, th>>
         ELSE IF nmoves = 1 \/ not_search(time_control)
                THEN /\ best_move' = 1
                     /\ phase' = "returned"
                     /\ UNCHANGED <<stop, nodes, th>>
                ELSE /\ stop' = FALSE
                     /\ nodes' = 0
                     /\ phase' = "searching"
                     /\ th' = [t \in Threads |->
                                 IF t <= nworkers
                                   THEN [th[t] EXCEPT !.pc = "spawned"]
                                   ELSE th[t]]
                     /\ UNCHANGED best_move
    /\ UNCHANGED <<time_control, nworkers, nmoves,
                   poolrest>>

(* ------------------------------ iterative_deepening -------------------- *)
SetUp(t) ==
    /\ phase = "searching"
    /\ th[t].pc = "spawned"
    /\ Upd(t, [set_up(th[t]) EXCEPT !.pc = "loop", !.d = start_depth(t)])
    /\ UNCHANGED <<phase, stop, nodes, time_control, nworkers, nmoves,
                   elapsed, best_move,
                   poolrest>>

\* for depth in start..=max: the range test, thread.depth > MAX_PLY, and
\* the first load of stop_soft
LoopHead(t) ==
    /\ th[t].pc = "loop"
    /\ \/ th[t].d > max_depth(t)
       \/ th[t].d <= IterCap(nworkers)
       \/ stop
       \/ SoftFires(TimeControlOf(t), elapsed, nodes)
    /\ IF th[t].d > max_depth(t) \/ th[t].depth > MAX_PLY
         THEN Upd(t, [th[t] EXCEPT !.pc = ExitPc(t)])
         ELSE IF stop
                THEN Upd(t, [th[t] EXCEPT !.pc = ExitPc(t), !.poll = TRUE])
                ELSE Upd(t, [th[t] EXCEPT !.pc = "soft"])
    /\ UNCHANGED <<phase, stop, nodes, time_control, nworkers, nmoves,
                   elapsed, best_move,
                   poolrest>>

Window(r) ==
    IF r.d >= ASPIRATION_DEPTH_THRESHOLD
      THEN <<Max(-INFINITY, r.score - ASPIRATION_MARGIN),
             Min(INFINITY, r.score + ASPIRATION_MARGIN)>>
      ELSE <<-INFINITY, INFINITY>>

\* entry of aspiration_window and of its first root alphabeta call
BeginAspiration(r) ==
    [r EXCEPT !.root_pv = <<>>, !.delta = ASPIRATION_MARGIN,
              !.alpha = Window(r)[1], !.beta = Window(r)[2],
              !.sentinel = FALSE, !.kids = 0, !.in_child = FALSE,
              !.pc = "hard"]

\* the rest of stop_soft, then aspiration_window's prologue
SoftDecide(t) ==
    /\ th[t].pc = "soft"
    /\ LET fired == SoftFires(TimeControlOf(t), elapsed, nodes)
       IN /\ stop' = StopStore(fired, stop)
          /\ IF fired
               THEN Upd(t, [th[t] EXCEPT !.pc = ExitPc(t), !.poll = TRUE])
               ELSE Upd(t, [BeginAspiration(th[t]) EXCEPT !.poll = FALSE])
    /\ UNCHANGED <<phase, nodes, time_control, nworkers, nmoves, elapsed,
                   best_move,
                   poolrest>>

(* ------------------------------ alphabeta ------------------------------ *)
\* a node whose stop_hard poll returned true returns 0; a child's return is
\* followed by pop_move and the parent's stopped() test
Sentinel(r) ==
    IF r.in_child
      THEN [r EXCEPT !.sentinel = TRUE, !.poll = TRUE, !.in_child = FALSE,
                     !.pc = "ret"]
      ELSE [r EXCEPT !.sentinel = TRUE, !.poll = TRUE, !.rscore = 0,
                     !.pc = "aspchk"]

\* stop_hard: the first load
HardLoad(t) ==
    /\ th[t].pc = "hard"
    /\ IF stop
         THEN Upd(t, Sentinel(th[t]))
         ELSE Upd(t, [th[t] EXCEPT !.pc = "hard2"])
    /\ UNCHANGED <<phase, stop, nodes, time_control, nworkers, nmoves,
                   elapsed, best_move,
                   poolrest>>

\* push_move on the next root move
PushChild(r) ==
    [r EXCEPT !.nodes = @ + 1, !.kids = @ + 1, !.in_child = TRUE,
              !.pc = "hard"]

\* stop_hard: the node batch, the match and the store; a root that passed
\* the poll pushes its first move, a child that passed it returns
HardDecide(t) ==
    /\ th[t].pc = "hard2"
    /\ LET r == th[t]
           searched == r.nodes - r.buffer
           fold == searched > NODE_BATCH
           n1 == IF fold THEN nodes + searched ELSE nodes
           r1 == IF fold THEN [r EXCEPT !.buffer = r.nodes] ELSE r
           fired == HardFires(TimeControlOf(t), elapsed, n1, stop)
       IN /\ nodes' = n1
          /\ stop' = StopStore(fired, stop)
          /\ IF fired
               THEN Upd(t, Sentinel(r1))
               ELSE IF r1.in_child
                      THEN Upd(t, [r1 EXCEPT !.poll = FALSE,
                                             !.in_child = FALSE,
                                             !.pc = "ret"])
                      ELSE Upd(t, [PushChild(r1) EXCEPT !.poll = FALSE])
    /\ UNCHANGED <<phase, time_control, nworkers, nmoves, elapsed,
                   best_move,
                   poolrest>>

\* the root's move loop after pop_move: stopped() returns 0; otherwise the
\* next move is pushed, or the loop ends (moves exhausted, or a beta cutoff)
\* and the root returns its best score with the line it raised alpha with
AfterChild(t) ==
    /\ th[t].pc = "ret"
    /\ LET r == th[t]
       IN IF stop
            THEN Upd(t, [r EXCEPT !.sentinel = TRUE, !.rscore = 0,
                                  !.pc = "aspchk"])
            ELSE \/ /\ r.kids < nmoves
                    /\ Upd(t, PushChild(r))
                 \/ \E s \in Scores, m \in 1 .. nmoves :
                       /\ r.kids = nmoves \/ s >= r.beta
                       /\ Upd(t, [r EXCEPT
                                    !.rscore = s,
                                    !.root_pv = IF s > r.alpha
                                                  THEN <<m>> ELSE <<>>,
                                    !.pc = "aspchk"])
    /\ UNCHANGED <<phase, stop, nodes, time_control, nworkers, nmoves,
                   elapsed, best_move,
                   poolrest>>

(* ------------------------------ aspiration_window ---------------------- *)
\* mutant: delta is not doubled after a failure
Widen_SameDelta(r) ==
    LET a == IF r.rscore <= r.alpha THEN r.alpha - r.delta ELSE r.alpha
        b == IF r.rscore <= r.alpha THEN r.beta ELSE r.beta + r.delta
    IN [r EXCEPT !.alpha = a, !.beta = b,
                 !.kids = 0, !.in_child = FALSE, !.pc = "hard"]

Widen(r) ==
    LET a == IF r.rscore <= r.alpha THEN r.alpha - r.delta ELSE r.alpha
        b == IF r.rscore <= r.alpha THEN r.beta ELSE r.beta + r.delta
        dl == r.delta * 2
    IN [r EXCEPT !.delta = dl,
                 !.alpha = IF dl >= MAX_DELTA THEN -INFINITY ELSE a,
                 !.beta = IF dl >= MAX_DELTA THEN INFINITY ELSE b,
                 !.kids = 0, !.in_child = FALSE, !.pc = "hard"]

\* committed: the score aspiration_window returns with this line
Commit(r) ==
    [r EXCEPT !.principal_variation = r.root_pv, !.completed = r.d,
              !.committed = r.rscore, !.pc = "idchk"]

AspCheck(t) ==
    /\ th[t].pc = "aspchk"
    /\ LET r == th[t]
       IN IF AspStopped(stop)
            THEN Upd(t, [r EXCEPT !.rscore = -INFINITY, !.pc = "idchk"])
            ELSE IF r.rscore <= r.alpha \/ r.rscore >= r.beta
                   THEN Upd(t, Widen(r))
                   ELSE Upd(t, Commit(r))
    /\ UNCHANGED <<phase, stop, nodes, time_control, nworkers, nmoves,
                   elapsed, best_move,
                   poolrest>>

\* T::MAIN
Main(t) == t = 0

\* uci_printer: one more info line on the standard output
uci_printer(r) == [r EXCEPT !.lines = @ + 1]

\* iterative_deepening after aspiration_window returned
IdCheck(t) ==
    /\ th[t].pc = "idchk"
    /\ IF stop
         THEN Upd(t, [th[t] EXCEPT !.pc = ExitPc(t)])
         ELSE LET r == [th[t] EXCEPT !.score = th[t].rscore, !.depth = @ + 1,
                                     !.d = @ + 1, !.pc = "loop"]
              IN  Upd(t, IF Main(t) THEN uci_printer(r) ELSE r)
    /\ UNCHANGED <<phase, stop, nodes, time_control, nworkers, nmoves,
                   elapsed, best_move,
                   poolrest>>

\* if T::MAIN && stopped() { uci_printer }
MainExit ==
    /\ th[0].pc = "exit"
    /\ LET r == [th[0] EXCEPT !.pc = "mainstop"]
       IN  Upd(0, IF stop THEN uci_printer(r) ELSE r)
    /\ UNCHANGED <<phase, stop, nodes, time_control, nworkers, nmoves,
                   elapsed, best_move,
                   poolrest>>

\* self.stop.store(true) in the main thread's closure
MainStop ==
    /\ th[0].pc = "mainstop"
    /\ stop' = MainStopValue
    /\ Upd(0, [th[0] EXCEPT !.pc = "done"])
    /\ UNCHANGED <<phase, nodes, time_control, nworkers, nmoves, elapsed,
                   best_move,
                   poolrest>>

(* ------------------------------ the vote ------------------------------- *)
Searchers == 0 .. nworkers

MaxCompleted ==
    CHOOSE c \in {th[t].completed : t \in Searchers} :
        \A t \in Searchers : th[t].completed <= c

Voters ==
    {t \in Searchers : th[t].completed = MaxCompleted
                       /\ th[t].principal_variation # <<>>}

Freq(m) == Cardinality({t \in Voters : th[t].principal_variation[1] = m})

Voted == {th[t].principal_variation[1] : t \in Voters}

\* HashMap::into_iter().max_by_key(count): the iteration order of the map
\* is unspecified, so any move of maximal count can be the one returned
VoteOutcomes ==
    IF Voters = {} THEN {None}
    ELSE {m \in Voted : \A m2 \in Voted : Freq(m2) <= Freq(m)}

\* the scope's join, then the vote
JoinAndVote ==
    /\ phase = "searching"
    /\ \A t \in Searchers : th[t].pc = "done"
    /\ best_move' \in VoteOutcomes
    /\ phase' = "returned"
    /\ UNCHANGED <<stop, nodes, time_control, nworkers, nmoves, elapsed, th,
                   poolrest>>

(* ------------------------------ environment ---------------------------- *)
\* uci_listener on "stop"
UciStop ==
    /\ ~stop
    /\ phase # "returned"
    /\ stop' = TRUE
    /\ UNCHANGED <<phase, nodes, time_control, nworkers, nmoves, elapsed, th,
                   best_move,
                   poolrest>>

\* the wall clock read by elapsed()
Tick ==
    /\ phase = "searching"
    /\ time_control.kind = "MoveTime"
    /\ \E e \in ClockValues : e > elapsed /\ elapsed' = e
    /\ UNCHANGED <<phase, stop, nodes, time_control, nworkers, nmoves, th,
                   best_move,
                   poolrest>>

ThreadStep(t) ==
    \/ SetUp(t)
    \/ LoopHead(t)
    \/ SoftDecide(t)
    \/ HardLoad(t)
    \/ HardDecide(t)
    \/ AfterChild(t)
    \/ AspCheck(t)
    \/ IdCheck(t)

Next ==
    \/ StartSearch
    \/ \E t \in Threads : ThreadStep(t)
    \/ MainExit
    \/ MainStop
    \/ JoinAndVote
    \/ UciStop
    \/ Tick

Spec == Init /\ [][Next]_vars

(* ------------------------------ fair scheduling ------------------------ *)
\* go depth <d> with no "stop" from the listener; every spawned OS thread
\* keeps being scheduled and the scope joins once all closures returned
InitDepth == Init /\ time_control.kind = "Depth"

NextSearch ==
    \/ StartSearch
    \/ \E t \in Threads : ThreadStep(t)
    \/ MainExit
    \/ MainStop
    \/ JoinAndVote

FairSpec ==
    /\ InitDepth
    /\ [][NextSearch]_vars
    /\ \A t \in Threads : WF_vars(ThreadStep(t))
    /\ WF_vars(StartSearch)
    /\ WF_vars(MainExit)
    /\ WF_vars(MainStop)
    /\ WF_vars(JoinAndVote)

(* ------------------------------ claims: pool and stop ------------------ *)
Searched == th[0].pc = "done"

\* C1: whenever the root has a legal move, start_search returns Some(m)
\* with m a legal root move, whatever the time control and the moment at
\* which stop is set (so that go is answered by a bestmove line).
C1_BestMoveWhenLegalMoves ==
    (phase = "returned" /\ nmoves >= 1) => best_move \in 1 .. nmoves

\* a stop_soft or stop_hard call begins at these locations
PollCall(t) ==
    \/ th[t].pc = "hard"
    \/ th[t].pc = "loop" /\ th[t].d <= max_depth(t) /\ th[t].depth <= MAX_PLY

\* C2: within one search the stop flag never goes from true back to false,
\* and every poll (stop_soft, stop_hard) that a thread begins while the flag
\* is true returns true.
C2_StopSticky ==
    [][/\ (phase = "searching" /\ stop) => stop'
       /\ \A t \in Threads :
            (stop /\ PollCall(t) /\ th'[t] # th[t]) => th'[t].poll]_vars

C2_Witness ==
    /\ phase = "searching"
    /\ th[0].pc = "done"
    /\ nworkers = 1
    /\ th[1].pc = "done"
    /\ th[1].poll
    /\ th[1].completed >= 2

\* C3: under Depth(d) without an external stop the search terminates: the
\* main thread completes its d iterations, stop is true from the moment the
\* main thread is done, and start_search returns only after every thread of
\* the pool has left iterative_deepening.
C3_DepthSearchTerminates ==
    /\ <>(phase = "returned")
    /\ [](Searched => (stop /\ th[0].completed = time_control.v
                       /\ th[0].depth = time_control.v))
    /\ []((phase = "returned" /\ nmoves >= 2)
            => \A t \in Searchers : th[t].pc = "done")

C3_Witness ==
    /\ phase = "returned"
    /\ nworkers = MaxWorkers
    /\ time_control = Depth(MaxIter)
    /\ \A t \in Searchers : th[t].pc = "done" /\ th[t].completed = MaxIter

\* C4: a thread's principal variation and completed depth change only when
\* aspiration_window read stop unset and the root score lies strictly inside
\* the window; once a node of an iteration returned the stop sentinel, the
\* thread's PV, completed, score and depth no longer change.
C4_CommitOnlyUnstoppedInWindow ==
    [][\A t \in Threads :
         /\ (\/ th'[t].principal_variation # th[t].principal_variation
             \/ th'[t].completed # th[t].completed)
              => /\ th[t].pc = "aspchk"
                 /\ ~stop
                 /\ ~th[t].sentinel
                 /\ th[t].alpha < th[t].rscore
                 /\ th[t].rscore < th[t].beta
                 /\ th'[t].completed = th[t].d
                 /\ th'[t].principal_variation = th[t].root_pv
         /\ th[t].sentinel
              => /\ th'[t].principal_variation = th[t].principal_variation
                 /\ th'[t].completed = th[t].completed
                 /\ th'[t].score = th[t].score
                 /\ th'[t].depth = th[t].depth]_vars

C4_Witness ==
    /\ th[0].pc = "done"
    /\ th[0].sentinel
    /\ th[0].d = ASPIRATION_DEPTH_THRESHOLD
    /\ th[0].delta > ASPIRATION_MARGIN
    /\ th[0].completed = ASPIRATION_DEPTH_THRESHOLD - 1
    /\ th[0].principal_variation # <<>>

\* C5: under Depth(d) no thread, main or worker, completes an iteration
\* deeper than d, so the voted move comes from a depth of at most d.
C5_NoThreadBeyondDepth ==
    time_control.kind = "Depth"
        => \A t \in Threads : th[t].completed <= time_control.v

\* the move of maximal count that comes first in the order main, workers
FirstMostFrequent ==
    IF Voters = {} THEN None
    ELSE LET first == CHOOSE t \in Voters :
                        /\ th[t].principal_variation[1] \in VoteOutcomes
                        /\ \A u \in Voters :
                             th[u].principal_variation[1] \in VoteOutcomes
                                 => t <= u
         IN th[first].principal_variation[1]

\* C6: the move returned after a search is the most frequent first PV move
\* among the threads at the maximum completed depth, ties going to the move
\* met first in the order main, workers: a function of the final states.
C6_VoteFirstEncountered ==
    (phase = "returned" /\ Searched) => best_move = FirstMostFrequent

\* C32: info lines are printed by the main thread only, exactly one per
\* completed iteration: the workers print none, and the main thread prints
\* a line only for the iteration it has just completed, so that it has
\* printed as many lines as it completed iterations when it is done.
C32_OneLinePerIteration ==
    /\ [](\A t \in Threads : t # 0 => th[t].lines = 0)
    /\ [](th[0].pc = "done" => th[0].lines = th[0].completed)
    /\ [][th'[0].lines > th[0].lines =>
            /\ th[0].pc = "idchk"
            /\ th'[0].lines = th[0].lines + 1
            /\ th'[0].lines = th'[0].completed]_vars

\* C33: whenever uci_printer runs in the main thread, thread.depth equals
\* thread.completed and thread.score is the score with which the current
\* principal variation was committed.
C33_InfoLineConsistent ==
    [][th'[0].lines > th[0].lines =>
         /\ th'[0].depth = th'[0].completed
         /\ th'[0].score = th'[0].committed]_vars

(* ------------------------------ transposition table: operations -------- *)
CellOf(key) == index(key, Len(cells)) + 1

\* get_unchecked(index) is inside the table
TableIndexOk(key) == index(key, Len(cells)) < Len(cells)

\* the match index of Cell::load and Cell::store has an arm for i
CellIndexOk(i) == i < ENTRIES_PER_CELL

\* mutant: probe takes the first slot whatever its tag
ProbeMatch_Any(entry, key) == TRUE

\* probe: if entry.key != key { continue }
ProbeMatch(entry, key) == entry.key = key

\* mutant: a slot that holds the key's tag is passed over
SlotFree_EmptyOnly(entry, key) == entry.key = 0

\* insert: internal.key == 0 || internal.key == key
SlotFree(entry, key) == entry.key = 0 \/ entry.key = key

\* mutant: an entry of equal weight replaces the stored one
Accept_EqualDepth(entry, key, a) ==
    \/ entry.key # key
    \/ a.bound = Exact /\ PackedBound(entry.data) # Exact
    \/ (a.depth + 4) + 2 * (IF a.pv_node THEN 1 ELSE 0) >= entry.depth

\* insert: the replacement policy
Accept(entry, key, a) ==
    \/ entry.key # key
    \/ a.bound = Exact /\ PackedBound(entry.data) # Exact
    \/ (a.depth + 4) + 2 * (IF a.pv_node THEN 1 ELSE 0) > entry.depth

\* insert: the entry written over `entry`
NewEntry(entry, key, a, ag) ==
    Entry(key,
          IF a.mv = NullMove /\ entry.key = key THEN entry.mv ELSE a.mv,
          normalize_score(a.score, a.ply),
          ToI16(a.evaluation),
          a.depth % 256,
          PackedData(ag, a.bound, a.pv_node))

Finish(r, res) == [IdleOp EXCEPT !.res = res]

\* an insert that returned without storing
Kept == [NoRes EXCEPT !.kind = "kept"]

AllIdle == \A t \in TTThreads : tth[t].pc = "idle"

TTBeginProbe(t, key, ply) ==
    /\ tth[t].pc = "idle"
    /\ tth' = [tth EXCEPT ![t] =
                 [IdleOp EXCEPT !.pc = "p_d", !.a = ProbeArgs(key, ply)]]
    /\ panicked' = (panicked \/ ~TableIndexOk(key))
    /\ issued' = Min(issued + 1, MaxTTOps)
    /\ UNCHANGED <<cells, age, calls, written, hf, ttrest>>

TTBeginInsert(t, a) ==
    /\ tth[t].pc = "idle"
    /\ tth' = [tth EXCEPT ![t] =
                 [IdleOp EXCEPT !.pc = "i_d", !.a = a, !.age = age]]
    /\ calls' = calls \cup {a}
    /\ panicked' = (panicked \/ ~TableIndexOk(a.key))
    /\ issued' = Min(issued + 1, MaxTTOps)
    /\ UNCHANGED <<cells, age, written, hf, ttrest>>

\* Cell::load, first half: the relaxed load of the 64-bit word
CellLoadData(t) ==
    /\ tth[t].pc \in {"p_d", "i_d"}
    /\ LET r == tth[t] IN
         /\ tth' = [tth EXCEPT ![t] =
                      [r EXCEPT !.ld = cells[CellOf(r.a.key)][r.i + 1].d,
                                !.pc = IF r.pc = "p_d" THEN "p_k" ELSE "i_k"]]
         /\ panicked' = (panicked \/ ~CellIndexOk(r.i))
    /\ UNCHANGED <<cells, age, calls, written, issued, hf, ttrest>>

\* probe: the relaxed load of the 16-bit word, then the tag test
ProbeSlot(t) ==
    /\ tth[t].pc = "p_k"
    /\ LET r == tth[t]
           e == FromWords(r.ld, cells[CellOf(r.a.key)][r.i + 1].k)
       IN tth' = [tth EXCEPT ![t] =
                    IF ProbeMatch(e, wrap_key(r.a.key))
                      THEN Finish(r, [kind |-> "hit", key |-> r.a.key,
                                      ply |-> r.a.ply, entry |-> e])
                      ELSE IF r.i + 1 < ENTRIES_PER_CELL
                             THEN [r EXCEPT !.i = r.i + 1, !.pc = "p_d"]
                             ELSE Finish(r, [kind |-> "miss", key |-> r.a.key,
                                             ply |-> r.a.ply,
                                             entry |-> ZeroEntry])]
    /\ UNCHANGED <<cells, age, calls, written, panicked, issued, hf, ttrest>>

\* insert: the relaxed load of the 16-bit word, the slot choice and, once
\* the slot is chosen, the replacement decision
InsertSlot(t) ==
    /\ tth[t].pc = "i_k"
    /\ LET r == tth[t]
           key == wrap_key(r.a.key)
           e == FromWords(r.ld, cells[CellOf(r.a.key)][r.i + 1].k)
           chosen == SlotFree(e, key)
           last == r.i + 1 >= ENTRIES_PER_CELL
           entry == IF r.i = 0 \/ chosen THEN e ELSE r.entry
           store_index == IF chosen THEN r.i ELSE 0
           new == NewEntry(entry, key, r.a, r.age)
       IN IF ~chosen /\ ~last
            THEN /\ tth' = [tth EXCEPT ![t] =
                              [r EXCEPT !.entry = entry, !.i = r.i + 1,
                                        !.pc = "i_d"]]
                 /\ UNCHANGED written
            ELSE IF Accept(entry, key, r.a)
                   THEN /\ tth' = [tth EXCEPT ![t] =
                                     [r EXCEPT !.entry = entry,
                                               !.store_index = store_index,
                                               !.new = new, !.pc = "s_d"]]
                        /\ written' = written \cup {new}
                   ELSE /\ tth' = [tth EXCEPT ![t] = Finish(r, Kept)]
                        /\ UNCHANGED written
    /\ UNCHANGED <<cells, age, calls, panicked, issued, hf, ttrest>>

\* Cell::store, first half: the relaxed store of the 64-bit word
CellStoreData(t) ==
    /\ tth[t].pc = "s_d"
    /\ LET r == tth[t] IN
         /\ cells' = [cells EXCEPT ![CellOf(r.a.key)][r.store_index + 1].d =
                        DataWord(r.new)]
         /\ tth' = [tth EXCEPT ![t] = [r EXCEPT !.pc = "s_k"]]
         /\ panicked' = (panicked \/ ~CellIndexOk(r.store_index))
    /\ UNCHANGED <<age, calls, written, issued, hf, ttrest>>

\* Cell::store, second half: the relaxed store of the 16-bit word
CellStoreKey(t) ==
    /\ tth[t].pc = "s_k"
    /\ LET r == tth[t] IN
         /\ cells' = [cells EXCEPT ![CellOf(r.a.key)][r.store_index + 1].k =
                        KeyWord(r.new)]
         /\ tth' = [tth EXCEPT ![t] = Finish(r, NoRes)]
    /\ UNCHANGED <<age, calls, written, panicked, issued, hf, ttrest>>

\* resize (setoption Hash): a new zeroed allocation; needs &mut self
TTResize ==
    /\ AllIdle
    /\ cells' = ZeroTable(TableLen)
    /\ tth' = [t \in TTThreads |-> Finish(tth[t], NoRes)]
    /\ calls' = {}
    /\ written' = {}
    /\ issued' = 0
    /\ UNCHANGED <<age, panicked, hf, ttrest>>

\* clear (ucinewgame): every byte zeroed, then age.store(0)
TTClear ==
    /\ AllIdle
    /\ cells' = ZeroTable(Len(cells))
    /\ age' = 0
    /\ tth' = [t \in TTThreads |-> Finish(tth[t], NoRes)]
    /\ calls' = {}
    /\ written' = {}
    /\ issued' = 0
    /\ UNCHANGED <<panicked, hf, ttrest>>

TTStep(t) ==
    \/ CellLoadData(t)
    \/ ProbeSlot(t)
    \/ InsertSlot(t)
    \/ CellStoreData(t)
    \/ CellStoreKey(t)

\* the pool at rest while the table is exercised
PoolQuiet ==
    /\ phase = "idle"
    /\ stop = FALSE
    /\ nodes = 0
    /\ nworkers = 0
    /\ time_control = Infinite
    /\ nmoves = 0
    /\ elapsed = 0
    /\ th = [t \in Threads |-> NewThread(t)]
    /\ best_move = None

(* ------------------------------ the table under concurrent use --------- *)
\* two keys of one cell with the same low 16 bits, a key of that cell whose
\* low 16 bits are zero, and a key of another cell
KA == Key(0, 0, 1)
KB == Key(0, 1, 1)
KZ == Key(0, 1, 0)
KD == Key(32768, 0, 1)

TTInserts ==
    {Args(k, 1, 17, 5, 3, Exact, TRUE, 2) : k \in {KA, KB, KZ, KD}}
        \cup {Args(k, 2, MATE - 3, -7, 9, LowerBound, FALSE, 4) : k \in {KA, KB}}
        \cup {Args(KA, NullMove, 0, 0, 0, UpperBound, FALSE, 0)}

TTProbes == {ProbeArgs(k, 2) : k \in {KA, KB, KZ, KD}}

InitTT ==
    /\ PoolQuiet
    /\ cells = ZeroTable(TableLen)
    /\ age = 1
    /\ tth = [t \in TTThreads |-> IdleOp]
    /\ calls = {}
    /\ written = {}
    /\ panicked = FALSE
    /\ issued = 0
    /\ hf = HfIdle
    /\ ABQuiet
    /\ UnitsQuiet
    /\ UciQuiet
    /\ AuxQuiet

NextTT ==
    \/ /\ issued < MaxTTOps
       /\ \E t \in TTThreads, a \in TTInserts : TTBeginInsert(t, a)
    \/ /\ issued < MaxTTOps
       /\ \E t \in TTThreads, a \in TTProbes : TTBeginProbe(t, a.key, a.ply)
    \/ \E t \in TTThreads : TTStep(t)

SpecTT == InitTT /\ [][NextTT]_vars

(* ------------------------------ the table used by one thread ----------- *)
RoundTripKeys == {KA, KZ, KD}
RoundTripScores ==
    {-INFINITY, -TTMATE, 1 - TTMATE, 0, TTMATE - 1, TTMATE, INFINITY}
RoundTripPlies == {0, 1, MAX_PLY - 1}

RoundTripArgs ==
    {Args(k, m, s, -1, d, b, pv, ply) :
        k \in RoundTripKeys, m \in {NullMove, 65535}, s \in RoundTripScores,
        d \in {0, 255}, b \in BoundNone .. UpperBound, pv \in BOOLEAN,
        ply \in RoundTripPlies}

\* age is 0 after construction or clear, and n mod 32 after n searches
InitRT ==
    /\ PoolQuiet
    /\ cells = ZeroTable(TableLen)
    /\ age \in {0, 1, AGE_MASK}
    /\ tth = [t \in TTThreads |-> IdleOp]
    /\ calls = {}
    /\ written = {}
    /\ panicked = FALSE
    /\ issued = 0
    /\ hf = HfIdle
    /\ ABQuiet
    /\ UnitsQuiet
    /\ UciQuiet
    /\ AuxQuiet

NextRT ==
    \/ /\ calls = {}
       /\ \E a \in RoundTripArgs : TTBeginInsert(1, a)
    \/ \E k \in RoundTripKeys, ply \in RoundTripPlies : TTBeginProbe(1, k, ply)
    \/ TTStep(1)
    \/ TTResize
    \/ TTClear

SpecRT == InitRT /\ [][NextRT]_vars

(* ------------------------------ claims: transposition table ------------ *)
\* the hit a finished probe of thread t returned
Hit(t) == EntryHit(tth[t].res.entry, tth[t].res.ply)

ReturnedMove(t) == tth[t].res.kind = "hit" /\ tth[t].res.entry.mv # NullMove

\* C7, as stated: under any interleaving of inserts and probes, every move a
\* probe returns was passed to some insert for the probed 64-bit key, and no
\* insert or probe panics.
C7_MoveOfInsertForKey ==
    /\ \A t \in TTThreads :
         ReturnedMove(t) =>
           \E c \in calls : c.key = tth[t].res.key /\ c.mv = tth[t].res.entry.mv
    /\ ~panicked

\* C7, amended: under any interleaving of inserts and probes, every move a
\* probe returns was passed to some insert whose key has the cell and the
\* low 16 bits of the probed key, and no insert or probe panics.
C7_MoveOfInsertForTag ==
    /\ \A t \in TTThreads :
         ReturnedMove(t) =>
           \E c \in calls :
             /\ index(c.key, Len(cells)) = index(tth[t].res.key, Len(cells))
             /\ wrap_key(c.key) = wrap_key(tth[t].res.key)
             /\ c.mv = tth[t].res.entry.mv
    /\ ~panicked

\* a probe returned a move out of a slot that another thread is writing
C7_Witness ==
    \E t, u \in TTThreads :
        /\ ReturnedMove(t)
        /\ tth[u].pc = "s_k"
        /\ CellOf(tth[u].a.key) = CellOf(tth[t].res.key)
        /\ DataWord(tth[u].new) = DataWord(tth[t].res.entry)
        /\ KeyWord(tth[u].new) # KeyWord(tth[t].res.entry)

\* C8: a slot read that joins the 64-bit word of one insert with the 16-bit
\* word of another is never returned as a hit by probe.
C8_NoMixedHit ==
    \A t \in TTThreads :
        tth[t].res.kind = "hit" =>
          ~ /\ tth[t].res.entry \notin written
            /\ \E a, b \in written :
                 /\ a # b
                 /\ DataWord(a) = DataWord(tth[t].res.entry)
                 /\ KeyWord(b) = KeyWord(tth[t].res.entry)

\* C9: on a freshly zeroed table, an insert followed by a probe with the
\* same key and ply returns a hit with the inserted move, bound, pv flag and
\* score, and the slot then holds the entry that was stored.
C9_RoundTrip ==
    \A a \in calls :
        (calls = {a} /\ tth[1].pc = "idle") =>
          /\ \E e \in written :
               \E i \in 1 .. ENTRIES_PER_CELL :
                 LET slot == cells[CellOf(a.key)][i] IN FromWords(slot.d, slot.k) = e
          /\ (/\ tth[1].res.kind # "none"
              /\ tth[1].res.key = a.key
              /\ tth[1].res.ply = a.ply) =>
               /\ tth[1].res.kind = "hit"
               /\ Hit(1).mv = a.mv
               /\ Hit(1).bound = a.bound
               /\ Hit(1).pv_node = a.pv_node
               /\ Hit(1).score = a.score

\* a mated-in score stored at a ply above zero came back unchanged
C9_Witness ==
    \E a \in calls :
        /\ calls = {a}
        /\ a.score <= -TTMATE
        /\ a.ply > 0
        /\ tth[1].res.kind = "hit"
        /\ tth[1].res.key = a.key
        /\ tth[1].res.ply = a.ply
        /\ tth[1].res.entry.score # a.score
        /\ Hit(1).score = a.score

\* C10: on a zero-initialized table, before any insert, every slot has bound
\* None and no probe returns a hit, whatever the key.
C10_ZeroTableNoHit ==
    calls = {} =>
      /\ \A c \in 1 .. Len(cells) : \A i \in 1 .. ENTRIES_PER_CELL :
           PackedBound(cells[c][i].k.data) = BoundNone
      /\ \A t \in TTThreads : tth[t].res.kind # "hit"

\* C21: a score s with |s| < TTMATE is stored as s whatever the ply of the
\* insert, and a probe of the key returns s whatever the ply of the probe.
C21_PlainScoreAnyPly ==
    \A a \in calls :
        (calls = {a} /\ -TTMATE < a.score /\ a.score < TTMATE) =>
          /\ \A e \in written : e.score = a.score
          /\ (tth[1].res.kind = "hit" /\ tth[1].res.key = a.key) =>
               Hit(1).score = a.score

\* the largest score below TTMATE, stored at the deepest ply, came back from
\* a probe at ply 0
C21_Witness ==
    \E a \in calls :
        /\ calls = {a}
        /\ a.score = TTMATE - 1
        /\ a.ply = MAX_PLY - 1
        /\ tth[1].res.kind = "hit"
        /\ tth[1].res.key = a.key
        /\ tth[1].res.ply = 0
        /\ Hit(1).score = a.score

(* ------------------------------ hash_full ------------------------------ *)
\* mutant: only exact entries are counted
Counted_ExactOnly(data, ag) == PackedBound(data) = Exact /\ PackedAge(data) = ag

\* entry.data.bound() != BoundType::None && entry.data.age() == age
Counted(data, ag) == PackedBound(data) # BoundNone /\ PackedAge(data) = ag

\* the main thread calls hash_full from uci_printer, between its own inserts
HashFullBegin ==
    /\ hf.pc = "idle"
    /\ tth[1].pc = "idle"
    /\ hf' = [hf EXCEPT !.pc = "scan", !.age = age, !.c = 0, !.i = 0,
                        !.counter = 0]
    /\ UNCHANGED <<cells, age, tth, calls, written, panicked, issued, ttrest>>

\* cell.load(index) of one slot (only the 16-bit word is looked at), the
\* count, and after the last slot counter / (2 * ENTRIES_PER_CELL)
HashFullSlot ==
    /\ hf.pc = "scan"
    /\ LET n == hf.counter
                  + (IF Counted(cells[hf.c + 1][hf.i + 1].k.data, hf.age)
                       THEN 1 ELSE 0)
           lastSlot == hf.i + 1 >= ENTRIES_PER_CELL
           lastCell == hf.c + 1 >= Len(cells)
       IN hf' = IF lastSlot /\ lastCell
                  THEN [hf EXCEPT !.pc = "idle", !.counter = n,
                                  !.prev = hf.ret,
                                  !.ret = n \div (2 * ENTRIES_PER_CELL),
                                  !.calls = Min(hf.calls + 1, 2)]
                  ELSE IF lastSlot
                         THEN [hf EXCEPT !.counter = n, !.c = hf.c + 1, !.i = 0]
                         ELSE [hf EXCEPT !.counter = n, !.i = hf.i + 1]
    /\ panicked' = (panicked \/ ~CellIndexOk(hf.i))
    /\ UNCHANGED <<cells, age, tth, calls, written, issued, ttrest>>

\* keys with distinct non-zero tags: three of the first cell, three of the last
HFKeys == <<KA, Key(0, 0, 2), Key(0, 0, 3), KD, Key(32768, 0, 2), Key(32768, 0, 3)>>

HFArgs(k, b) == Args(k, 1, 17, 5, 3, b, FALSE, 2)

\* the table after the first n keys of HFKeys were inserted by this search
Prefilled(n, ag) ==
    [c \in 1 .. TableLen |->
       [i \in 1 .. ENTRIES_PER_CELL |->
          LET hit == {j \in 1 .. n :
                        /\ index(HFKeys[j], TableLen) + 1 = c
                        /\ ((j - 1) % ENTRIES_PER_CELL) + 1 = i}
          IN IF hit = {} THEN ZeroSlot
             ELSE LET j == CHOOSE x \in hit : TRUE
                      e == NewEntry(ZeroEntry, wrap_key(HFKeys[j]),
                                    HFArgs(HFKeys[j], Exact), ag)
                  IN [d |-> DataWord(e), k |-> KeyWord(e)]]]

\* what the search stores (its bound is LowerBound, Exact or UpperBound,
\* never None): a new key, and two keys stored before with another bound
HFInserts ==
    {HFArgs(HFKeys[6], Exact), HFArgs(HFKeys[1], LowerBound),
     HFArgs(HFKeys[5], UpperBound)}

InitHF ==
    /\ PoolQuiet
    /\ age = 1
    /\ \E n \in {0, 5} :
         /\ cells = Prefilled(n, age)
         /\ calls = {HFArgs(HFKeys[j], Exact) : j \in 1 .. n}
         /\ written = {NewEntry(ZeroEntry, wrap_key(HFKeys[j]),
                                HFArgs(HFKeys[j], Exact), age) : j \in 1 .. n}
    /\ tth = [t \in TTThreads |-> IdleOp]
    /\ panicked = FALSE
    /\ issued = 0
    /\ hf = HfIdle
    /\ ABQuiet
    /\ UnitsQuiet
    /\ UciQuiet
    /\ AuxQuiet

NextHF ==
    \/ /\ issued < MaxTTOps
       /\ \E t \in TTThreads, a \in HFInserts :
            /\ t = 1 => hf.pc = "idle"
            /\ TTBeginInsert(t, a)
    \/ /\ issued < MaxTTOps
       /\ \E t \in TTThreads :
            /\ t = 1 => hf.pc = "idle"
            /\ TTBeginProbe(t, HFKeys[1], 2)
    \/ \E t \in TTThreads : TTStep(t)
    \/ HashFullBegin
    \/ HashFullSlot

SpecHF == InitHF /\ [][NextHF]_vars

\* C11: within one search, with every thread inserting, the values that
\* successive hash_full calls return never decrease.
C11_HashFullMonotone == hf.calls >= 2 => hf.prev <= hf.ret

\* a call returned more than the call before it, while a store is under way
C11_Witness ==
    /\ hf.calls >= 2
    /\ hf.prev < hf.ret
    /\ \E t \in TTThreads : tth[t].pc = "s_k"

(* ------------------------------ the table used by one search thread ---- *)
\* With one thread the two loads of Cell::load and the two stores of
\* Cell::store are not interleaved with anything: probe and insert are
\* functions of the table.
LoadSlot(cell, i) == FromWords(cell[i].d, cell[i].k)

MinOf(S) == CHOOSE x \in S : \A y \in S : x <= y

\* TranspositionTable::probe: the first slot of the cell whose tag matches
probe(cs, key, ply) ==
    LET cell == cs[index(key, Len(cs)) + 1]
        hits == {i \in 1 .. ENTRIES_PER_CELL :
                   ProbeMatch(LoadSlot(cell, i), wrap_key(key))}
    IN IF hits = {}
         THEN [some |-> FALSE, hit |-> EntryHit(ZeroEntry, ply)]
         ELSE [some |-> TRUE, hit |-> EntryHit(LoadSlot(cell, MinOf(hits)), ply)]

\* insert: the first free or matching slot, slot 0 when there is none
StoreIndex(cell, key) ==
    LET free == {i \in 1 .. ENTRIES_PER_CELL : SlotFree(LoadSlot(cell, i), key)}
    IN IF free = {} THEN 1 ELSE MinOf(free)

\* TranspositionTable::insert
insert(cs, a, ag) ==
    LET c == index(a.key, Len(cs)) + 1
        key == wrap_key(a.key)
        si == StoreIndex(cs[c], key)
        entry == LoadSlot(cs[c], si)
        new == NewEntry(entry, key, a, ag)
    IN IF Accept(entry, key, a)
         THEN [cs EXCEPT ![c][si] = [d |-> DataWord(new), k |-> KeyWord(new)]]
         ELSE cs

\* ---------------------------------------------------------------------
\* Moves, boards and the move picker
\* ---------------------------------------------------------------------

\* the four type bits of the moves the boards below offer:
\* 1 Quiet, 2 Capture, 3 DoublePawn, 4 CapPromoQueen, 5 Quiet,
\* 6 EnPassant, 7 PromotionKnight
MoveFlag == <<0, 4, 1, 15, 0, 5, 8>>

Moves == 1..Len(MoveFlag)

is_null(mv) == mv = NullMove
is_quiet(mv) == MoveFlag[mv] = 0
is_capture(mv) == (MoveFlag[mv] \div 4) % 2 = 1
is_promotion(mv) == MoveFlag[mv] \div 8 # 0

\* the piece standing on the move's source and on its destination
SrcPiece == <<"Knight", "Pawn", "Pawn", "Pawn", "Rook", "Pawn", "Pawn">>
DestPiece == <<"none", "Queen", "none", "Rook", "none", "none", "none">>

piece_value(piece) ==
    CASE piece = "Pawn" -> 94
      [] piece = "Knight" -> 281
      [] piece = "Bishop" -> 297
      [] piece = "Rook" -> 512
      [] piece = "Queen" -> 936
      [] OTHER -> 0

capture_key(mv) ==
    LET victim_value == piece_value(DestPiece[mv])
        attacker_value == IF MoveFlag[mv] = 15 THEN 936
                          ELSE piece_value(SrcPiece[mv])
    IN  -(victim_value * 100 - attacker_value)

RECURSIVE SortedInsert(_, _)
SortedInsert(sorted, mv) ==
    IF sorted = <<>> THEN <<mv>>
    ELSE IF capture_key(sorted[Len(sorted)]) <= capture_key(mv)
         THEN Append(sorted, mv)
         ELSE Append(SortedInsert(SubSeq(sorted, 1, Len(sorted) - 1), mv),
                     sorted[Len(sorted)])

RECURSIVE SortFrom(_, _)
SortFrom(moves, n) ==
    IF n = 0 THEN <<>> ELSE SortedInsert(SortFrom(moves, n - 1), moves[n])

score_captures(moves) == SortFrom(moves, Len(moves))

Range(seq) == {seq[i] : i \in 1..Len(seq)}

\* a board, as far as the search looks at it
Board(id, zobrist, check, tactical, quiet, eval) ==
    [id |-> id, zobrist |-> zobrist, checkers |-> check,
     tactical |-> tactical, quiet |-> quiet, eval |-> eval]

tactical_moves(board) == board.tactical
quiet_moves(board) == board.quiet
legal_moves(board) == Range(board.tactical) \cup Range(board.quiet)

NoKillers == <<None, None>>

NewPicker(tt_move, killer_move) ==
    [tt_move |-> tt_move, killer_move |-> killer_move, stage |-> "TTMove",
     moves |-> <<>>, index |-> 0, skip_quiets |-> FALSE, killer_index |-> 0]

Yield(picker, mv) == [p |-> picker, mv |-> mv]

\* mutant: yield_once passes the killers on
Skipped_TTOnly(picker, mv) ==
    \/ mv = picker.tt_move

Skipped(picker, mv) ==
    \/ mv = picker.tt_move
    \/ mv = picker.killer_move[1]
    \/ mv = picker.killer_move[2]

RECURSIVE yield_once(_)
yield_once(picker) ==
    IF picker.index < Len(picker.moves)
    THEN LET mv == picker.moves[picker.index + 1]
             p == [picker EXCEPT !.index = picker.index + 1]
         IN  IF Skipped(picker, mv) THEN yield_once(p) ELSE Yield(p, mv)
    ELSE Yield(picker, None)

NextQuiets(picker, board) ==
    LET p1 == IF picker.index = 0
              THEN [picker EXCEPT !.moves = quiet_moves(board)]
              ELSE picker
        y == yield_once(p1)
    IN  IF y.mv # None THEN y
        ELSE Yield([y.p EXCEPT !.stage = "Done", !.index = 0], None)

RECURSIVE NextKillers(_, _)
NextKillers(picker, board) ==
    IF picker.killer_index < 2
    THEN LET i == picker.killer_index + 1
             killer == picker.killer_move[i]
             p == [picker EXCEPT !.killer_index = i]
         IN  IF /\ killer # None
                /\ killer # picker.tt_move
                /\ killer \in Range(quiet_moves(board))
             THEN Yield(p, killer)
             ELSE NextKillers(p, board)
    ELSE NextQuiets([picker EXCEPT !.stage = "Quiets"], board)

NextCaptures_KeepIndex(picker, board) ==
    LET p1 == IF picker.index = 0
              THEN [picker EXCEPT !.moves = tactical_moves(board)]
              ELSE picker
        p2 == [p1 EXCEPT !.moves = score_captures(p1.moves)]
        y == yield_once(p2)
    IN  IF y.mv # None THEN y
        ELSE IF picker.skip_quiets
             THEN Yield([y.p EXCEPT !.stage = "Done", !.index = 0], None)
             ELSE NextKillers([y.p EXCEPT !.stage = "Killers"], board)

NextCaptures(picker, board) ==
    LET p1 == IF picker.index = 0
              THEN [picker EXCEPT !.moves = tactical_moves(board)]
              ELSE picker
        p2 == [p1 EXCEPT !.moves = score_captures(p1.moves)]
        y == yield_once(p2)
    IN  IF y.mv # None THEN y
        ELSE IF picker.skip_quiets
             THEN Yield([y.p EXCEPT !.stage = "Done", !.index = 0], None)
             ELSE NextKillers([y.p EXCEPT !.stage = "Killers", !.index = 0],
                              board)

next(picker, board) ==
    CASE picker.stage = "Done" -> Yield(picker, None)
      [] picker.stage = "TTMove" ->
            LET p == [picker EXCEPT !.stage = "Captures"]
            IN  IF picker.tt_move # None THEN Yield(p, picker.tt_move)
                ELSE NextCaptures(p, board)
      [] picker.stage = "Captures" -> NextCaptures(picker, board)
      [] picker.stage = "Killers" -> NextKillers(picker, board)
      [] picker.stage = "Quiets" -> NextQuiets(picker, board)

\* ---------------------------------------------------------------------
\* The killer table of a thread
\* ---------------------------------------------------------------------

store_NoShift(table, ply, mv) ==
    IF table[ply][1] # mv
    THEN [table EXCEPT ![ply] = <<mv, None>>]
    ELSE table

store(table, ply, mv) ==
    IF table[ply][1] # mv
    THEN [table EXCEPT ![ply] = <<mv, table[ply][1]>>]
    ELSE table

get(table, ply) == table[ply]

\* ---------------------------------------------------------------------
\* One thread's search: iterative deepening, aspiration windows,
\* alphabeta and quiescence over a small game
\* ---------------------------------------------------------------------

\* the deepest iteration of the walk, and the plies the killer table holds
MaxABDepth == 6
MaxGamePly == 10

\* the game: board b offers the moves of Tactical[b] and Quiets[b], and
\* move mv made on it gives the board Succ[b][mv]; the last board has no
\* move
Tactical == << <<2>>, <<>>, <<6>>, <<2, 4>>, <<>>, <<4>>, <<7>>, <<2>>,
               <<>>, <<>> >>
Quiets == << <<1>>, <<5, 3>>, <<1>>, <<>>, <<1, 5>>, <<5>>, <<1>>, <<3>>,
             <<1>>, <<>> >>
Succ == << <<2, 3>>, <<0, 0, 4, 0, 3>>, <<4, 0, 0, 0, 0, 5>>,
           <<0, 5, 0, 6>>, <<6, 0, 0, 0, 7>>, <<0, 0, 0, 8, 7>>,
           <<9, 0, 0, 0, 0, 0, 8>>, <<0, 10, 9>>, <<10>>, <<>> >>
InCheck == <<FALSE, TRUE, FALSE, FALSE, FALSE, FALSE, FALSE, FALSE, FALSE,
             FALSE>>
\* the same game with board 5, which captures lead to and which has quiet
\* moves only, standing in check
InCheckAfterCapture ==
    <<FALSE, TRUE, FALSE, FALSE, TRUE, FALSE, FALSE, FALSE, FALSE, FALSE>>
Zobrist == <<Key(0, 0, 1), Key(0, 1, 1), Key(0, 0, 2), Key(32768, 0, 1),
             Key(32768, 0, 2), Key(0, 0, 3), Key(32768, 0, 3), Key(0, 0, 4),
             Key(32768, 0, 4), Key(0, 0, 5)>>

\* what evaluate() gives on the boards, in three games
Evaluations ==
    { <<20, -20, 120, -350, 20, 500, -940, 20, -20, 0>>,
      <<20, 300, -300, 20, -20, -120, 20, -20, 600, 0>>,
      <<-500, 520, 480, -20, 900, 20, 20, 0, -700, 0>> }

\* the threads whose walk is followed: the main thread, and a worker
\* whose first iteration is deep enough for a narrow window
ABThreadIds == {0, 4}

make_move(board, mv) == Succ[board][mv]

mate_in(ply) == MATE - ply

mated_in_Deeper(ply) == -MATE - ply

mated_in(ply) == -MATE + ply

ABIdle(id, evals, mated, checks) ==
    [pc |-> "idle", stack |-> <<>>,
     arg |-> [fn |-> "ab", pv |-> TRUE, root |-> TRUE, depth |-> 0,
              alpha |-> 0, beta |-> 0],
     val |-> 0, board |-> 1, game |-> <<>>, ply |-> 0, nodes |-> 0,
     killer |-> [q \in 0 .. MaxGamePly |-> NoKillers],
     depth |-> (id % 8) + 1, score |-> 0, completed |-> 0,
     alpha |-> 0, beta |-> 0, delta |-> 0, widened |-> FALSE,
     evals |-> evals, mated |-> mated, last |-> "none",
     who |-> "none", checks |-> checks]

\* the board the position stands on, as the search and the picker see it
BoardOf(b) ==
    Board(b, Zobrist[b],
          IF b = Len(ab.checks) THEN ab.mated ELSE ab.checks[b],
          Tactical[b], Quiets[b], ab.evals[b])

\* EntryHit::legal_move
legal_move(hit, board) ==
    IF ~is_null(hit.mv) /\ hit.mv \in legal_moves(board) THEN hit.mv ELSE None

BoundCut(hit, alpha, beta) ==
    \/ hit.bound = Exact
    \/ hit.bound = LowerBound /\ hit.score >= beta
    \/ hit.bound = UpperBound /\ hit.score <= alpha

BoundOf(best_score, alpha_orig, beta) ==
    IF best_score >= beta THEN LowerBound
    ELSE IF best_score > alpha_orig THEN Exact
    ELSE UpperBound

\* what the rest of the model's steps leave alone, and what the walk does
abrest == <<phase, nodes, time_control, nworkers, nmoves, elapsed, th,
            best_move, age, tth, calls, written, panicked, issued, hf,
            unitvars, uci, auxvars>>

Out(a, cs) == [ab |-> a, cells |-> cs]

Return(a, val, why, cs) ==
    Out([a EXCEPT !.pc = "ret", !.val = val, !.last = why], cs)

\* Position::push_move
push_move(a, mv) ==
    [a EXCEPT !.game = Append(a.game, a.board),
              !.board = make_move(a.board, mv),
              !.ply = a.ply + 1,
              !.nodes = a.nodes + 1]

\* mutant: the board made by the move stays current
pop_move_KeepBoard(a) ==
    [a EXCEPT !.game = SubSeq(a.game, 1, Len(a.game) - 1),
              !.ply = a.ply - 1]

pop_move_KeepPly(a) ==
    [a EXCEPT !.board = a.game[Len(a.game)],
              !.game = SubSeq(a.game, 1, Len(a.game) - 1)]

\* Position::pop_move
pop_move(a) ==
    [a EXCEPT !.board = a.game[Len(a.game)],
              !.game = SubSeq(a.game, 1, Len(a.game) - 1),
              !.ply = a.ply - 1]

\* the position and the counters a push_move finds, kept to compare
Snapshot(a) ==
    [board |-> a.board, game |-> a.game, ply |-> a.ply, nodes |-> a.nodes]

Frame(fn, pv, root, depth, alpha, beta, best_score, check, picker) ==
    [fn |-> fn, pv |-> pv, root |-> root, depth |-> depth, alpha |-> alpha,
     beta |-> beta, alpha_orig |-> alpha, best_score |-> best_score,
     best_move |-> NullMove, move_count |-> 0, picker |-> picker,
     mv |-> NullMove, stage |-> "first", in_check |-> check,
     snap |-> [board |-> 0, game |-> <<>>, ply |-> 0, nodes |-> 0]]

\* the recursive call a frame makes for its current move
ChildArg(f) ==
    CASE f.fn = "qs" ->
            [fn |-> "qs", pv |-> f.pv, root |-> FALSE, depth |-> 0,
             alpha |-> -f.beta, beta |-> -f.alpha]
      [] f.fn = "ab" /\ f.stage = "first" ->
            [fn |-> "ab", pv |-> f.pv, root |-> FALSE, depth |-> f.depth - 1,
             alpha |-> -f.beta, beta |-> -f.alpha]
      [] f.fn = "ab" /\ f.stage = "null" ->
            [fn |-> "ab", pv |-> FALSE, root |-> FALSE, depth |-> f.depth - 1,
             alpha |-> -f.alpha - 1, beta |-> -f.alpha]
      [] f.fn = "ab" /\ f.stage = "re" ->
            [fn |-> "ab", pv |-> TRUE, root |-> FALSE, depth |-> f.depth - 1,
             alpha |-> -f.beta, beta |-> -f.alpha]

\* after the move loop: the score of a node without moves, or the store
\* into the table and the best score
Conclude(a, f, rest, cs) ==
    LET a1 == [a EXCEPT !.stack = rest, !.who = f.fn]
        bound == BoundOf(f.best_score, f.alpha_orig, f.beta)
        stored == insert(cs, Args(Zobrist[a.board], f.best_move, f.best_score,
                                  0, f.depth, bound, f.pv, a.ply), age)
    IN  IF f.move_count = 0 /\ f.in_check
        THEN Return(a1, mated_in(a.ply), "mated", cs)
        ELSE IF f.move_count = 0 /\ f.fn = "ab"
        THEN Return(a1, 0, "stalemate", cs)
        ELSE Return(a1, f.best_score, "searched", stored)

\* the head of the move loop: the picker's next move is made and searched
Loop(a, f, rest, cs) ==
    LET y == next(f.picker, BoardOf(a.board))
        f1 == [f EXCEPT !.picker = y.p, !.mv = y.mv,
                        !.move_count = f.move_count + 1,
                        !.stage = IF f.fn = "ab" /\ f.move_count > 0
                                  THEN "null" ELSE "first",
                        !.snap = Snapshot(a)]
    IN  IF y.mv = None THEN Conclude(a, f, rest, cs)
        ELSE Out([push_move(a, y.mv) EXCEPT !.stack = Append(rest, f1),
                                            !.pc = "call",
                                            !.arg = ChildArg(f1)], cs)

Do(r) == ab' = r.ab /\ cells' = r.cells

\* iterative_deepening: the loop head, and the window aspiration_window
\* starts with
ABIterate ==
    /\ ab.pc = "idle"
    /\ IF ab.depth > MaxABDepth \/ stop
       THEN ab' = [ab EXCEPT !.pc = "done"]
       ELSE LET narrow == ab.depth >= ASPIRATION_DEPTH_THRESHOLD
                alpha == IF narrow
                         THEN Max(-INFINITY, ab.score - ASPIRATION_MARGIN)
                         ELSE -INFINITY
                beta == IF narrow
                        THEN Min(INFINITY, ab.score + ASPIRATION_MARGIN)
                        ELSE INFINITY
            IN  ab' = [ab EXCEPT !.pc = "call", !.alpha = alpha,
                                 !.beta = beta, !.delta = ASPIRATION_MARGIN,
                                 !.widened = FALSE,
                                 !.arg = [fn |-> "ab", pv |-> TRUE,
                                          root |-> TRUE, depth |-> ab.depth,
                                          alpha |-> alpha, beta |-> beta]]
    /\ UNCHANGED <<stop, cells, abrest>>

\* alphabeta, from its entry to its first recursive call or its return
ABEnter ==
    /\ ab.pc = "call"
    /\ ab.arg.fn = "ab"
    /\ LET a == ab.arg
           board == BoardOf(ab.board)
           d1 == IF board.checkers /\ a.depth < MAX_PLY
                 THEN a.depth + 1 ELSE a.depth
           depth == Min(d1, MAX_PLY - 1)
           alpha == IF a.root THEN a.alpha
                    ELSE Max(a.alpha, mated_in(ab.ply))
           beta == IF a.root THEN a.beta
                   ELSE Min(a.beta, mate_in(ab.ply + 1))
           tt_entry == probe(cells, board.zobrist, ab.ply)
           tt_move == IF tt_entry.some
                      THEN legal_move(tt_entry.hit, board) ELSE None
           reduced == IF a.pv /\ depth >= 4 /\ ~tt_entry.some
                      THEN depth - 1 ELSE depth
           picker == NewPicker(tt_move, get(ab.killer, ab.ply))
           me == [ab EXCEPT !.who = "ab"]
       IN  IF stop THEN Do(Return(me, 0, "stopped", cells))
           ELSE IF d1 = 0 \/ ab.ply >= MAX_PLY
           THEN Do(Out([ab EXCEPT !.arg.fn = "qs"], cells))
           ELSE IF ~a.root /\ alpha >= beta
           THEN Do(Return(me, alpha, "mate distance", cells))
           ELSE IF /\ tt_entry.some
                   /\ tt_entry.hit.depth >= depth
                   /\ ~a.pv
                   /\ BoundCut(tt_entry.hit, alpha, beta)
           THEN Do(Return(me, tt_entry.hit.score, "table", cells))
           ELSE Do(Loop(ab, Frame("ab", a.pv, a.root, reduced, alpha, beta,
                                  -INFINITY, board.checkers, picker),
                        ab.stack, cells))
    /\ UNCHANGED <<stop, abrest>>

\* quiescence, from its entry to its first recursive call or its return
QsEnter ==
    /\ ab.pc = "call"
    /\ ab.arg.fn = "qs"
    /\ LET a == ab.arg
           board == BoardOf(ab.board)
           tt_entry == probe(cells, board.zobrist, ab.ply)
           tt_move == IF tt_entry.some
                      THEN legal_move(tt_entry.hit, board) ELSE None
           stand_pat == board.eval
           alpha == Max(a.alpha, stand_pat)
           picker == [NewPicker(tt_move, NoKillers)
                        EXCEPT !.skip_quiets = TRUE]
           f == [Frame("qs", a.pv, FALSE, 0, alpha, a.beta, stand_pat,
                       board.checkers, picker)
                   EXCEPT !.alpha_orig = a.alpha]
           me == [ab EXCEPT !.who = "qs"]
       IN  IF stop THEN Do(Return(me, 0, "stopped", cells))
           ELSE IF /\ tt_entry.some
                   /\ ~a.pv
                   /\ BoundCut(tt_entry.hit, a.alpha, a.beta)
           THEN Do(Return(me, tt_entry.hit.score, "table", cells))
           ELSE IF stand_pat >= a.beta
           THEN Do(Return(me, stand_pat, "stand pat", cells))
           ELSE Do(Loop(ab, f, ab.stack, cells))
    /\ UNCHANGED <<stop, abrest>>

\* a recursive call has returned into the move loop of its caller
ABReturn ==
    /\ ab.pc = "ret"
    /\ ab.stack # <<>>
    /\ LET f == ab.stack[Len(ab.stack)]
           rest == SubSeq(ab.stack, 1, Len(ab.stack) - 1)
           score == -ab.val
           a1 == pop_move(ab)
           better == score > f.best_score
           raised == better /\ score > f.alpha
           f1 == [f EXCEPT !.best_score = IF better THEN score ELSE @,
                           !.alpha = IF raised THEN score ELSE @,
                           !.best_move = IF raised THEN f.mv ELSE @]
           cut == better /\ score >= f.beta
           a2 == IF cut /\ f.fn = "ab" /\ is_quiet(f.mv)
                 THEN [a1 EXCEPT !.killer = store(a1.killer, a1.ply, f.mv)]
                 ELSE a1
           again == [f EXCEPT !.stage = "re"]
       IN  IF f.fn = "ab" /\ f.stage = "null" /\ score > f.alpha /\ f.pv
           THEN Do(Out([ab EXCEPT !.stack = Append(rest, again),
                                  !.pc = "call", !.arg = ChildArg(again)],
                       cells))
           ELSE IF stop
           THEN Do(Return([a1 EXCEPT !.stack = rest, !.who = f.fn], 0,
                          "stopped", cells))
           ELSE IF cut THEN Do(Conclude(a2, f1, rest, cells))
           ELSE Do(Loop(a2, f1, rest, cells))
    /\ UNCHANGED <<stop, abrest>>

\* aspiration_window after the root search, and the rest of the
\* iteration in iterative_deepening
ABAspiration ==
    /\ ab.pc = "ret"
    /\ ab.stack = <<>>
    /\ LET delta == ab.delta * 2
           full == delta >= MAX_DELTA
           alpha == IF full THEN -INFINITY
                    ELSE IF ab.val <= ab.alpha THEN ab.alpha - ab.delta
                    ELSE ab.alpha
           beta == IF full THEN INFINITY
                   ELSE IF ab.val > ab.alpha /\ ab.val >= ab.beta
                   THEN ab.beta + ab.delta
                   ELSE ab.beta
       IN  IF stop
           THEN ab' = [ab EXCEPT !.pc = "done", !.val = -INFINITY,
                                 !.last = "aspiration stopped"]
           ELSE IF ab.val <= ab.alpha \/ ab.val >= ab.beta
           THEN ab' = [ab EXCEPT !.pc = "call", !.alpha = alpha,
                                 !.beta = beta, !.delta = delta,
                                 !.widened = TRUE,
                                 !.arg = [fn |-> "ab", pv |-> TRUE,
                                          root |-> TRUE, depth |-> ab.depth,
                                          alpha |-> alpha, beta |-> beta]]
           ELSE ab' = [ab EXCEPT !.pc = "idle", !.score = ab.val,
                                 !.completed = ab.depth,
                                 !.depth = ab.depth + 1]
    /\ UNCHANGED <<stop, cells, abrest>>

\* the stop flag is raised while the walk is under way: by the pool, by
\* another thread, or by stop_hard once the time is up
ABStop ==
    /\ ab.pc \in {"call", "ret"}
    /\ ~stop
    /\ stop' = TRUE
    /\ UNCHANGED <<ab, cells, abrest>>

InitAB ==
    /\ PoolQuiet
    /\ age = 1
    /\ cells = ZeroTable(TableLen)
    /\ calls = {}
    /\ written = {}
    /\ tth = [t \in TTThreads |-> IdleOp]
    /\ panicked = FALSE
    /\ issued = 0
    /\ hf = HfIdle
    /\ UnitsQuiet
    /\ UciQuiet
    /\ AuxQuiet
    /\ \E id \in ABThreadIds, evals \in Evaluations, mated \in BOOLEAN,
          checks \in {InCheck, InCheckAfterCapture} :
         ab = ABIdle(id, evals, mated, checks)

NextAB ==
    \/ ABIterate
    \/ ABEnter
    \/ QsEnter
    \/ ABReturn
    \/ ABAspiration
    \/ ABStop

SpecAB == InitAB /\ [][NextAB]_vars

\* C12: every value alphabeta or quiescence returns, and so every value
\* the root search and the aspiration loop of an iteration return, lies
\* in [-INFINITY, INFINITY], also after the window was widened and on a
\* cutoff taken from the table.
C12_ScoreInRange ==
    ab.pc # "off" =>
        /\ ab.pc \in {"ret", "done"} =>
               -INFINITY <= ab.val /\ ab.val <= INFINITY
        /\ -INFINITY <= ab.score /\ ab.score <= INFINITY

\* a mate score comes back from the table while the root is searched
\* again in a widened window
C12_Witness ==
    /\ ab.pc = "ret"
    /\ ab.widened
    /\ ab.last = "table"
    /\ ab.val <= -TTMATE

\* C34: every push_move of alphabeta and quiescence is matched by a
\* pop_move before the function returns, on the stop paths as well: at
\* every node the stack of earlier boards holds thread.ply entries, one for
\* each function in its move loop, and whenever the root search has
\* returned, however it ended, the position stands on the root board with
\* an empty stack and ply 0.
C34_PushPopBalanced ==
    ab.pc # "off" =>
        /\ Len(ab.game) = ab.ply
        /\ Len(ab.stack) = ab.ply
        /\ (ab.pc \in {"idle", "done"} \/ ab.stack = <<>>)
              => (ab.board = 1 /\ ab.game = <<>> /\ ab.ply = 0)

\* the walk ended on a stop after an iteration and at least three moves
C34_Witness ==
    /\ ab.pc = "done"
    /\ ab.last = "aspiration stopped"
    /\ ab.nodes >= 3
    /\ ab.completed >= 1
    /\ ab.board = 1

\* ---------------------------------------------------------------------
\* A move picker drained on a fixed board
\* ---------------------------------------------------------------------

\* the longest list of tactical moves a board of this part offers
MaxTactical == 3

TacticalKinds == {mv \in Moves : is_capture(mv) \/ is_promotion(mv)}
QuietKinds == Moves \ TacticalKinds

\* the lists without repetition of at most n moves of S
Orders(S, n) ==
    {seq \in UNION {[1 .. k -> S] : k \in 0 .. n} :
        \A i, j \in 1 .. Len(seq) : seq[i] = seq[j] => i = j}

Ascending(seq) == \A i, j \in 1 .. Len(seq) : i < j => seq[i] < seq[j]

PickerBoards ==
    {Board(0, Key(0, 0, 0), FALSE, tactical, quiet, 0) :
        tactical \in Orders(TacticalKinds, MaxTactical),
        quiet \in {q \in Orders(QuietKinds, Cardinality(QuietKinds)) :
                     Ascending(q)}}

\* the killers a thread may hold: quiet moves, legal on this board or not
KillerPairs ==
    {<<k0, k1>> : k0, k1 \in {None} \cup {mv \in Moves : is_quiet(mv)}}

InitMP ==
    /\ PoolQuiet
    /\ TTQuiet
    /\ ABQuiet
    /\ kt = Off
    /\ pos = Off
    /\ UciQuiet
    /\ AuxQuiet
    /\ \E board \in PickerBoards, killers \in KillerPairs,
          skip_quiets \in BOOLEAN :
         \E tt_move \in {None} \cup legal_moves(board) :
            mp = [pc |-> "next", board |-> board, yielded |-> <<>>,
                  nones |-> 0,
                  picker |-> [NewPicker(tt_move, killers)
                                EXCEPT !.skip_quiets = skip_quiets]]

\* one call of MovePicker::next
MPNext ==
    /\ mp.pc = "next"
    /\ mp.nones < 2
    /\ LET y == next(mp.picker, mp.board)
       IN  mp' = [mp EXCEPT !.picker = y.p,
                            !.yielded = IF y.mv = None THEN @
                                        ELSE Append(@, y.mv),
                            !.nones = IF y.mv = None THEN @ + 1 ELSE @]
    /\ UNCHANGED <<poolvars, ttvars, abvars, kt, pos, uci, auxvars>>

NextMP == MPNext

SpecMP == InitMP /\ [][NextMP]_vars

\* C13: without a table move and without killers, and with the quiet
\* moves not skipped, the moves the picker yields before its first None
\* are the legal moves of the board, each exactly once; after that first
\* None no further move is yielded.
C13_EveryLegalMoveOnce ==
    (/\ mp.pc = "next"
     /\ mp.nones > 0
     /\ mp.picker.tt_move = None
     /\ mp.picker.killer_move = NoKillers
     /\ ~mp.picker.skip_quiets)
    => /\ Range(mp.yielded) = legal_moves(mp.board)
       /\ Len(mp.yielded) = Cardinality(legal_moves(mp.board))

C13_Witness ==
    /\ mp.pc = "next"
    /\ mp.nones = 2
    /\ mp.picker.tt_move = None
    /\ mp.picker.killer_move = NoKillers
    /\ ~mp.picker.skip_quiets
    /\ Len(mp.board.tactical) = MaxTactical
    /\ Len(mp.board.quiet) >= 2
    /\ Len(mp.yielded) = MaxTactical + Len(mp.board.quiet)

\* C14: with the quiet moves skipped, every move the picker yields is a
\* capture, an en-passant capture or a promotion, whatever the table move
\* it was constructed with.
C14_SkipQuietsOnlyTactical ==
    (mp.pc = "next" /\ mp.picker.skip_quiets)
    => \A i \in 1 .. Len(mp.yielded) :
          is_capture(mp.yielded[i]) \/ is_promotion(mp.yielded[i])

\* the stages in the order of the enum
StageRank(stage) ==
    CASE stage = "TTMove" -> 0
      [] stage = "Captures" -> 1
      [] stage = "Killers" -> 2
      [] stage = "Quiets" -> 3
      [] stage = "Done" -> 4

\* the stage a move yielded at position i belongs to
YieldRank(i) ==
    LET mv == mp.yielded[i]
    IN  IF i = 1 THEN 0
        ELSE IF mv \in Range(tactical_moves(mp.board)) THEN 1
        ELSE IF mv \in Range(mp.picker.killer_move) THEN 2
        ELSE 3

\* a legal table move, two distinct quiet killers, quiet moves not skipped
OrderedCase ==
    /\ mp.pc = "next"
    /\ mp.picker.tt_move \in legal_moves(mp.board)
    /\ mp.picker.killer_move[1] # None
    /\ mp.picker.killer_move[2] # None
    /\ mp.picker.killer_move[1] # mp.picker.killer_move[2]
    /\ ~mp.picker.skip_quiets

\* C31: with a legal table move and two distinct quiet killers the picker
\* yields the table move, then the captures in non-increasing order of
\* 100 * victim - attacker, then each killer at most once and only if it is
\* a legal quiet move other than the table move, then the remaining quiet
\* moves; the stage never moves backwards, every legal move is yielded
\* exactly once, and after the first None only None is returned.
C31_StagedOrder ==
    /\ [](OrderedCase =>
            /\ mp.yielded # <<>> => mp.yielded[1] = mp.picker.tt_move
            /\ \A i, j \in 1 .. Len(mp.yielded) :
                  /\ (i # j) => mp.yielded[i] # mp.yielded[j]
                  /\ (i < j) => YieldRank(i) <= YieldRank(j)
                  /\ (i < j /\ YieldRank(i) = 1 /\ YieldRank(j) = 1)
                       => capture_key(mp.yielded[i]) <= capture_key(mp.yielded[j])
            /\ \A i \in 1 .. Len(mp.yielded) :
                  /\ mp.yielded[i] \in legal_moves(mp.board)
                  /\ YieldRank(i) = 2 =>
                       /\ mp.yielded[i] \in Range(quiet_moves(mp.board))
                       /\ mp.yielded[i] # mp.picker.tt_move
            /\ mp.nones > 0 => Range(mp.yielded) = legal_moves(mp.board))
    /\ [][OrderedCase =>
            /\ StageRank(mp'.picker.stage) >= StageRank(mp.picker.stage)
            /\ mp.nones > 0 => mp'.yielded = mp.yielded]_vars

\* drained: a captured table move, three tactical moves, both killers
\* legal and yielded, a quiet move after them
C31_Witness ==
    /\ OrderedCase
    /\ mp.nones = 2
    /\ Len(mp.board.tactical) = MaxTactical
    /\ mp.picker.tt_move = mp.board.tactical[MaxTactical]
    /\ Len(mp.yielded) = MaxTactical + 3
    /\ mp.yielded[MaxTactical + 1] = mp.picker.killer_move[1]
    /\ mp.yielded[MaxTactical + 2] = mp.picker.killer_move[2]

\* ---------------------------------------------------------------------
\* A position on which moves are made and taken back
\* ---------------------------------------------------------------------

\* the node count at which no further move is made
MaxPosNodes == 6

PosMoves(b) == Range(Tactical[b]) \cup Range(Quiets[b])

InitPos ==
    /\ PoolQuiet
    /\ TTQuiet
    /\ ABQuiet
    /\ mp = Off
    /\ kt = Off
    /\ UciQuiet
    /\ AuxQuiet
    /\ \E b \in 1 .. 3 :
         pos = [pc |-> "on", board |-> b, game |-> <<>>, ply |-> 0,
                nodes |-> 0, hist |-> <<>>, last |-> "none",
                direct |-> FALSE,
                found |-> [board |-> 0, game |-> <<>>, ply |-> 0,
                           nodes |-> 0]]

PosPush ==
    /\ pos.pc = "on"
    /\ pos.nodes < MaxPosNodes
    /\ \E mv \in PosMoves(pos.board) :
         pos' = [push_move(pos, mv) EXCEPT
                    !.hist = Append(pos.hist, Snapshot(pos)),
                    !.last = "push"]
    /\ UNCHANGED <<poolvars, ttvars, abvars, mp, kt, uci, auxvars>>

PosPop ==
    /\ pos.pc = "on"
    /\ pos.game # <<>>
    /\ pos' = [pop_move(pos) EXCEPT
                 !.hist = SubSeq(pos.hist, 1, Len(pos.hist) - 1),
                 !.found = pos.hist[Len(pos.hist)],
                 !.direct = (pos.last = "push"),
                 !.last = "pop"]
    /\ UNCHANGED <<poolvars, ttvars, abvars, mp, kt, uci, auxvars>>

NextPos == PosPush \/ PosPop

SpecPos == InitPos /\ [][NextPos]_vars

\* C15: pop_move after push_move(m) leaves the board and the stack of
\* earlier boards as push_move found them and restores the thread's ply;
\* when the two calls follow each other directly the thread's node count
\* is larger by exactly one.
C15_PushPopRestores ==
    (pos.pc = "on" /\ pos.last = "pop") =>
        /\ pos.board = pos.found.board
        /\ pos.game = pos.found.game
        /\ pos.ply = pos.found.ply
        /\ pos.direct => pos.nodes = pos.found.nodes + 1

C15_Witness ==
    /\ pos.pc = "on"
    /\ pos.last = "pop"
    /\ pos.direct
    /\ Len(pos.game) >= 2
    /\ pos.nodes = MaxPosNodes

\* ---------------------------------------------------------------------
\* A killer table under a sequence of stores
\* ---------------------------------------------------------------------

\* the plies 0 .. MaxKillerPly of the table that are stored into
MaxKillerPly == 1

\* the moves stored: two quiet moves and a capture
StoredMoves == {1, 2, 5}

InitKT ==
    /\ PoolQuiet
    /\ TTQuiet
    /\ ABQuiet
    /\ mp = Off
    /\ pos = Off
    /\ UciQuiet
    /\ AuxQuiet
    /\ LET empty == [q \in 0 .. MaxKillerPly |-> NoKillers]
       IN  kt = [pc |-> "on", table |-> empty, prev1 |-> empty,
                 prev2 |-> empty, ops |-> <<>>]

\* one call of KillerMoves::store; the two earlier tables and the last
\* two calls are kept to compare
KTStore ==
    /\ kt.pc = "on"
    /\ \E ply \in 0 .. MaxKillerPly, mv \in StoredMoves :
         kt' = [kt EXCEPT !.table = store(kt.table, ply, mv),
                          !.prev1 = kt.table,
                          !.prev2 = kt.prev1,
                          !.ops = IF kt.ops = <<>>
                                  THEN <<[ply |-> ply, mv |-> mv]>>
                                  ELSE <<kt.ops[Len(kt.ops)],
                                         [ply |-> ply, mv |-> mv]>>]
    /\ UNCHANGED <<poolvars, ttvars, abvars, mp, pos, uci, auxvars>>

NextKT == KTStore

SpecKT == InitKT /\ [][NextKT]_vars

\* C16: storing the same move at the same ply a second time changes
\* nothing; after store(ply, a) and then store(ply, b) with a # b,
\* get(ply) is [Some(b), Some(a)] and every other ply is as before the
\* two stores.
C16_KillerStore ==
    (kt.pc = "on" /\ Len(kt.ops) = 2 /\ kt.ops[1].ply = kt.ops[2].ply) =>
        LET ply == kt.ops[1].ply
            a == kt.ops[1].mv
            b == kt.ops[2].mv
        IN  /\ a = b => kt.table = kt.prev1
            /\ a # b =>
                 /\ get(kt.table, ply) = <<b, a>>
                 /\ \A q \in 0 .. MaxKillerPly :
                       q # ply => kt.table[q] = kt.prev2[q]

\* b was the first killer of the ply, and the other ply held killers,
\* before a and then b were stored
C16_Witness ==
    /\ kt.pc = "on"
    /\ Len(kt.ops) = 2
    /\ kt.ops[1].ply = kt.ops[2].ply
    /\ kt.ops[1].mv # kt.ops[2].mv
    /\ kt.prev2[kt.ops[1].ply][1] = kt.ops[2].mv
    /\ \E q \in 0 .. MaxKillerPly :
          q # kt.ops[1].ply /\ kt.table[q][2] # None

\* ---------------------------------------------------------------------
\* The command loop: parsing of command lines, the go dispatch and the
\* shortcuts of start_search
\* ---------------------------------------------------------------------

MINIMUM_TIME == 30
OPTIMAL_TIME_BASE == 65
INCREMENT_TIME_BASE == 85
DEFAULT_MOVESTOGO == 40
THREADS_MIN == 1
THREADS_MAX == 512
HASH_MIN == 1
HASH_MAX == 1048576

\* an Option: <<>> is None, <<x>> is Some(x)
Some(x) == <<x>>
Nothing == <<>>

\* str::parse on the numerals the command lines use; any other token
\* fails to parse
Numerals ==
    ("0" :> 0) @@ ("1" :> 1) @@ ("2" :> 2) @@ ("5" :> 5) @@ ("50" :> 50)
        @@ ("60" :> 60) @@ ("1000" :> 1000)

parse(token) ==
    IF token \in DOMAIN Numerals THEN Some(Numerals[token]) ELSE Nothing

DynamicTime(wtime, btime, winc, binc, movestogo) ==
    [kind |-> "DynamicTime", v |-> 0, wtime |-> wtime, btime |-> btime,
     winc |-> winc, binc |-> binc, movestogo |-> movestogo]

Ok(value) == [ok |-> TRUE, value |-> value, err |-> "none"]
Err(err) == [ok |-> FALSE, value |-> Nothing, err |-> err]

GoKeys ==
    {"depth", "movetime", "wtime", "btime", "winc", "binc", "movestogo",
     "nodes"}

\* TimeControl::from_str after the token loop
GoDecide(acc) ==
    IF acc["depth"] # Nothing THEN Ok(Depth(acc["depth"][1]))
    ELSE IF acc["movetime"] # Nothing THEN Ok(MoveTime(acc["movetime"][1]))
    ELSE IF acc["wtime"] # Nothing /\ acc["btime"] # Nothing
    THEN IF (acc["winc"] # Nothing) = (acc["binc"] # Nothing)
         THEN Ok(DynamicTime(acc["wtime"][1], acc["btime"][1], acc["winc"],
                             acc["binc"], acc["movestogo"]))
         ELSE Err("MissingValue")
    ELSE IF acc["nodes"] # Nothing THEN Ok(Nodes(acc["nodes"][1]))
    ELSE Err("InvalidValue")

\* the token loop of TimeControl::from_str, from token i on
RECURSIVE GoScan(_, _, _)
GoScan(tokens, i, acc) ==
    IF i > Len(tokens) THEN GoDecide(acc)
    ELSE IF tokens[i] = "infinite" THEN Ok(Infinite)
    ELSE IF tokens[i] \in GoKeys
    THEN IF i = Len(tokens) THEN Err("MissingValue")
         ELSE IF parse(tokens[i + 1]) = Nothing THEN Err("InvalidValue")
         ELSE GoScan(tokens, i + 2,
                     [acc EXCEPT ![tokens[i]] = parse(tokens[i + 1])])
    ELSE Err("UnknownParameter")

\* TimeControl::from_str
TimeControl_from_str(tokens) ==
    GoScan(tokens, 1, [k \in GoKeys |-> Nothing])

\* calculate_time
calculate_time(remaining, increment, movestogo) ==
    LET max_time == Max(0, remaining - MOVE_OVERHEAD)
        limit_time == IF movestogo # Nothing
                      THEN max_time \div movestogo[1]
                      ELSE (max_time \div DEFAULT_MOVESTOGO)
                               + ((increment * INCREMENT_TIME_BASE) \div 100)
        hard_time == Max(limit_time, MINIMUM_TIME)
        soft_time == Max((Min(hard_time, max_time) * OPTIMAL_TIME_BASE)
                             \div 100, MINIMUM_TIME)
    IN  [soft |-> soft_time, hard |-> hard_time]

\* TimeManager::new divides by movestogo
NewPanics(tc) == tc.kind = "DynamicTime" /\ tc.movestogo = Some(0)

\* the hard limit TimeManager::new computes
NewHardLimit(tc, white) ==
    CASE tc.kind = "MoveTime" -> tc.v - Min(MOVE_OVERHEAD, tc.v)
      [] tc.kind = "DynamicTime" ->
            LET remaining == IF white THEN tc.wtime ELSE tc.btime
                inc == IF white THEN tc.winc ELSE tc.binc
                increment == IF inc = Nothing THEN 0 ELSE inc[1]
            IN  calculate_time(remaining, increment, tc.movestogo).hard
      [] OTHER -> 0

\* TimeManager::not_search
NotSearch(tc, white) ==
    tc.kind \in {"MoveTime", "DynamicTime"} /\ NewHardLimit(tc, white) = 0

\* the names under which the moves are typed, by move
MoveNames == <<"g1f3", "d5e6", "e2e4", "b7a8q", "a1a2", "e5d6", "h7h8n">>

\* Board::find_move: the legal move of the board with that name
find_move(b, name) ==
    LET found == {mv \in PosMoves(b) : MoveNames[mv] = name}
    IN  IF found = {} THEN Nothing ELSE Some(CHOOSE mv \in found : TRUE)

\* the boards that are set up from a FEN: one with a single legal move and
\* one with none
FenBoards == {9, 10}

FenOf(b) ==
    <<IF b = 9 THEN "8/8/8/8/8/k7/p7/K7" ELSE "k7/8/1Q6/8/8/8/8/K7", "b",
      "-", "-", "0", "1">>

\* Board::from_str on the joined tokens
Board_from_str(fen) ==
    LET found == {b \in FenBoards : FenOf(b) = fen}
    IN  IF found = {} THEN Nothing ELSE Some(CHOOSE b \in found : TRUE)

Cmd(kind) ==
    [cmd |-> kind, board |-> 0, tc |-> Infinite, name |-> "", value |-> "",
     depth |-> 0]

\* for uci_move in tokens: find_move and make_move, from token i on
RECURSIVE ApplyMoves(_, _, _)
ApplyMoves(b, tokens, i) ==
    IF i > Len(tokens) THEN Ok([Cmd("Position") EXCEPT !.board = b])
    ELSE IF find_move(b, tokens[i]) = Nothing THEN Err("IlegalUciMove")
    ELSE ApplyMoves(make_move(b, find_move(b, tokens[i])[1]), tokens, i + 1)

ParsePosition(tokens) ==
    IF Len(tokens) >= 2 /\ tokens[2] = "startpos"
    THEN IF Len(tokens) = 2 THEN Ok([Cmd("Position") EXCEPT !.board = 1])
         ELSE IF tokens[3] = "moves" THEN ApplyMoves(1, tokens, 4)
         ELSE Err("InvalidPositionFormat")
    ELSE IF Len(tokens) >= 2 /\ tokens[2] = "fen"
    THEN LET board == Board_from_str(SubSeq(tokens, 3, Min(Len(tokens), 8)))
         IN  IF board = Nothing THEN Err("InvalidFenPosition")
             ELSE IF Len(tokens) >= 9 /\ tokens[9] = "moves"
             THEN ApplyMoves(board[1], tokens, 10)
             ELSE Ok([Cmd("Position") EXCEPT !.board = board[1]])
    ELSE Err("InvalidPositionFormat")

ParseGo(tokens) ==
    LET parsed == TimeControl_from_str(Tail(tokens))
    IN  IF parsed.ok
        THEN Ok([Cmd("Go") EXCEPT !.tc = parsed.value])
        ELSE Err("InvalidGo")

ParseSetOption(tokens) ==
    IF ~(Len(tokens) >= 2 /\ tokens[2] = "name") THEN Err("InvalidSetOption")
    ELSE IF Len(tokens) < 3 THEN Err("NoOptionValue")
    ELSE IF ~(Len(tokens) >= 4 /\ tokens[4] = "value")
    THEN Err("InvalidSetOption")
    ELSE IF Len(tokens) < 5 THEN Err("NoOptionValue")
    ELSE Ok([Cmd("SetOption") EXCEPT !.name = tokens[3],
                                     !.value = tokens[5]])

\* parse::<u8> and the test depth > 0
ParsePerft(tokens, kind) ==
    IF Len(tokens) < 2 THEN Err("NoOptionValue")
    ELSE LET depth == parse(tokens[2])
         IN  IF depth # Nothing /\ depth[1] > 0 /\ depth[1] < 256
             THEN Ok([Cmd(kind) EXCEPT !.depth = depth[1]])
             ELSE Err("InvalidOptionValue")

\* UCICommand::from_str on the tokens of the trimmed line
UCICommand_from_str(tokens) ==
    IF tokens = <<>> THEN Err("UnknownCommand")
    ELSE CASE tokens[1] = "uci" -> Ok(Cmd("Uci"))
           [] tokens[1] = "isready" -> Ok(Cmd("IsReady"))
           [] tokens[1] = "ucinewgame" -> Ok(Cmd("UciNewGame"))
           [] tokens[1] = "position" -> ParsePosition(tokens)
           [] tokens[1] = "go" -> ParseGo(tokens)
           [] tokens[1] = "stop" -> Ok(Cmd("Stop"))
           [] tokens[1] = "quit" -> Ok(Cmd("Quit"))
           [] tokens[1] = "setoption" -> ParseSetOption(tokens)
           [] tokens[1] = "dperft" -> ParsePerft(tokens, "DividePerft")
           [] tokens[1] = "perft" -> ParsePerft(tokens, "Perft")
           [] tokens[1] = "print" -> Ok(Cmd("Print"))
           [] tokens[1] = "eval" -> Ok(Cmd("Eval"))
           [] tokens[1] = "license" -> Ok(Cmd("License"))
           [] tokens[1] = "help" -> Ok(Cmd("Help"))
           [] OTHER -> Err("UnknownCommand")

\* the command lines typed, as their tokens
GoLines ==
    {<<"go">> \o rest : rest \in
        {<<>>, <<"infinite">>, <<"depth", "5">>, <<"depth", "5", "infinite">>,
         <<"infinite", "depth", "5">>, <<"movetime", "60">>, <<"movetime", "50">>,
         <<"nodes", "5", "movetime", "60", "depth", "2">>,
         <<"wtime", "1000", "btime", "1000">>,
         <<"btime", "60", "wtime", "60", "winc", "5", "binc", "5",
           "movestogo", "2">>,
         <<"wtime", "1000", "btime", "1000", "movestogo", "0">>,
         <<"wtime", "1000", "btime", "1000", "winc", "5">>,
         <<"nodes", "5", "wtime", "1000">>, <<"nodes", "5">>,
         <<"depth">>, <<"depth", "x">>, <<"ponder">>}}

PositionLines ==
    {<<"position">> \o rest : rest \in
        {<<>>, <<"startpos">>, <<"startpos", "moves", "g1f3", "a1a2">>,
         <<"startpos", "moves", "g1f3", "e2e4", "d5e6", "e2e4">>,
         <<"startpos", "moves", "g1f3", "g1f3">>, <<"startpos", "e2e4">>,
         <<"fen">> \o FenOf(9), <<"fen">> \o FenOf(10),
         <<"fen">> \o FenOf(9) \o <<"moves", "g1f3">>,
         <<"fen">> \o FenOf(9) \o <<"moves", "e2e4">>,
         <<"fen", "8/8", "w">>, <<"current">>}}

OtherLines ==
    {<<>>, <<"uci">>, <<"isready">>, <<"ucinewgame">>, <<"print">>,
     <<"eval">>, <<"perft", "1">>, <<"perft">>, <<"perft", "0">>,
     <<"dperft", "1000">>, <<"xyzzy">>, <<"stop">>, <<"quit">>,
     <<"setoption">>, <<"setoption", "name">>,
     <<"setoption", "name", "Hash">>, <<"setoption", "name", "Hash", "value">>,
     <<"setoption", "name", "Hash", "value", "1">>,
     <<"setoption", "name", "Hash", "value", "0">>,
     <<"setoption", "name", "Threads", "value", "2">>,
     <<"setoption", "name", "Threads", "value", "x">>,
     <<"setoption", "name", "Ponder", "value", "1">>}

Lines == GoLines \cup PositionLines \cup OtherLines

\* the command lines read before the input ends
MaxLines == 3

\* legal_moves!(board), in the order the list holds them
MoveList(b) == Tactical[b] \o Quiets[b]

Checked(b) == IF b = Len(InCheck) THEN uci.mated ELSE InCheck[b]

\* Board::side: the boards on which White is to move
white(b) == b \in {1, 3, 5, 7}

\* what the dispatcher starts the handling of a line from
Pre ==
    [board |-> uci.board, stop |-> stop, nodes |-> nodes, age |-> age,
     cells |-> cells, nworkers |-> nworkers]

NoLast ==
    [line |-> <<>>, cmd |-> "none", err |-> "none", out |-> <<>>,
     errs |-> <<>>, ret |-> Nothing, ran |-> FALSE, tc |-> Infinite,
     pre |-> [board |-> 0, stop |-> FALSE, nodes |-> 0, age |-> 0,
              cells |-> <<>>, nworkers |-> 0]]

\* the record of the line just handled
Last(line, res, out, errs) ==
    [NoLast EXCEPT !.line = line,
                   !.cmd = IF res.ok THEN res.value.cmd ELSE "none",
                   !.err = res.err, !.out = out, !.errs = errs,
                   !.tc = IF res.ok THEN res.value.tc ELSE Infinite,
                   !.pre = Pre]

Handled(last) ==
    [uci EXCEPT !.handled = uci.handled + 1, !.last = last,
                !.failed = uci.failed \/ last.err # "none"]

Receiving(line, kinds) ==
    /\ uci.pc = "recv"
    /\ uci.handled < MaxLines
    /\ LET res == UCICommand_from_str(line)
       IN  IF kinds = {} THEN ~res.ok ELSE res.ok /\ res.value.cmd \in kinds

ucirest == <<phase, time_control, nmoves, elapsed, th, best_move, tth,
             calls, written, panicked, issued, hf, abvars, unitvars,
             auxvars>>

ErrLines_Always(line, res) == <<"info string [error]">>

\* the two Err arms of uci_loop
ErrLines(line, res) ==
    IF res.err = "UnknownCommand" /\ line = <<>> THEN <<>>
    ELSE <<"info string [error]">>

\* a line that does not parse
UciError ==
    /\ \E line \in Lines :
         /\ Receiving(line, {})
         /\ uci' = Handled(Last(line, UCICommand_from_str(line), <<>>,
                                ErrLines(line, UCICommand_from_str(line))))
    /\ UNCHANGED <<stop, nodes, nworkers, cells, age, ucirest>>

\* uci_listener: stop and quit are not sent to the dispatcher
UciListenStop ==
    /\ \E line \in Lines :
         /\ Receiving(line, {"Stop", "Quit"})
         /\ uci' = [Handled(Last(line, UCICommand_from_str(line), <<>>, <<>>))
                      EXCEPT !.pc = IF line[1] = "quit" THEN "exited"
                                    ELSE "recv"]
    /\ stop' = TRUE
    /\ UNCHANGED <<nodes, nworkers, cells, age, ucirest>>

\* the commands that only print
UciPrint ==
    /\ \E line \in Lines :
         /\ Receiving(line, {"Uci", "IsReady", "DividePerft", "Perft",
                             "Print", "Eval", "License", "Help"})
         /\ uci' = Handled(Last(line, UCICommand_from_str(line),
                                <<line[1]>>, <<>>))
    /\ UNCHANGED <<stop, nodes, nworkers, cells, age, ucirest>>

UciNewGame ==
    /\ \E line \in Lines :
         /\ Receiving(line, {"UciNewGame"})
         /\ uci' = [Handled(Last(line, UCICommand_from_str(line), <<>>, <<>>))
                      EXCEPT !.board = 1]
    /\ cells' = ZeroTable(Len(cells))
    /\ age' = 0
    /\ UNCHANGED <<stop, nodes, nworkers, ucirest>>

UciPosition ==
    /\ \E line \in Lines :
         /\ Receiving(line, {"Position"})
         /\ uci' = [Handled(Last(line, UCICommand_from_str(line), <<>>, <<>>))
                      EXCEPT !.board = UCICommand_from_str(line).value.board]
    /\ UNCHANGED <<stop, nodes, nworkers, cells, age, ucirest>>

UciSetOption ==
    /\ \E line \in Lines :
         /\ Receiving(line, {"SetOption"})
         /\ LET res == UCICommand_from_str(line)
                value == parse(res.value.value)
                hash == /\ res.value.name \in {"Hash", "hash"}
                        /\ value # Nothing
                        /\ HASH_MIN <= value[1] /\ value[1] <= HASH_MAX
                threads == /\ res.value.name \in {"Threads", "threads"}
                           /\ value # Nothing
                           /\ THREADS_MIN <= value[1]
                           /\ value[1] <= THREADS_MAX
                           /\ value[1] - 1 <= MaxWorkers
            IN  /\ uci' = Handled(Last(line, res,
                                       IF hash \/ threads
                                       THEN <<"info string">> ELSE <<>>,
                                       IF hash \/ threads THEN <<>>
                                       ELSE <<"info string [error]">>))
                /\ cells' = IF hash THEN ZeroTable(TableLen) ELSE cells
                /\ nworkers' = IF threads THEN value[1] - 1 ELSE nworkers
    /\ UNCHANGED <<stop, nodes, age, ucirest>>

\* TranspositionTable::age
NextAge(a) == (a + 1) % (AGE_MASK + 1)

\* Go: the table is aged and start_search is called. The search itself,
\* when it is run, is followed in the other parts; here it leaves the
\* flag raised by the main thread, a node count, possibly an entry for
\* the root, and the move the vote gives
UciGo ==
    /\ \E line \in Lines :
         /\ Receiving(line, {"Go"})
         /\ LET res == UCICommand_from_str(line)
                tc == res.value.tc
                b == uci.board
                moves == MoveList(b)
                last == Last(line, res, <<>>, <<>>)
            IN  IF NewPanics(tc)
                THEN /\ uci' = [Handled(last) EXCEPT !.pc = "dead"]
                     /\ UNCHANGED <<stop, nodes, cells>>
                ELSE IF moves = <<>>
                THEN /\ uci' = Handled([last EXCEPT !.out =
                                 IF Checked(b)
                                 THEN <<"info depth 0 score mate 0 time 0">>
                                 ELSE <<"info depth 0 score cp 0 time 0">>])
                     /\ UNCHANGED <<stop, nodes, cells>>
                ELSE IF Len(moves) = 1 \/ NotSearch(tc, white(b))
                THEN /\ uci' = Handled([last EXCEPT
                                           !.ret = Some(moves[1]),
                                           !.out = <<"bestmove">>])
                     /\ UNCHANGED <<stop, nodes, cells>>
                ELSE \E best \in {Nothing} \cup {Some(mv) : mv \in PosMoves(b)},
                        counted \in {0, NODE_BATCH + 1}, stored \in BOOLEAN :
                        /\ uci' = Handled([last EXCEPT
                                     !.ret = best, !.ran = TRUE,
                                     !.out = IF best = Nothing THEN <<"info">>
                                             ELSE <<"info", "bestmove">>])
                        /\ stop' = TRUE
                        /\ nodes' = counted
                        /\ cells' = IF stored
                                    THEN insert(cells,
                                             Args(Zobrist[b], moves[1], 0, 0,
                                                  1, Exact, TRUE, 0),
                                             NextAge(age))
                                    ELSE cells
    /\ age' = NextAge(age)
    /\ UNCHANGED <<nworkers, ucirest>>

InitUci ==
    /\ PoolQuiet
    /\ TTQuiet
    /\ ABQuiet
    /\ UnitsQuiet
    /\ AuxQuiet
    /\ \E mated \in BOOLEAN :
         uci = [pc |-> "recv", board |-> 1, mated |-> mated, handled |-> 0,
                failed |-> FALSE, last |-> NoLast]

NextUci ==
    \/ UciError
    \/ UciListenStop
    \/ UciPrint
    \/ UciNewGame
    \/ UciPosition
    \/ UciSetOption
    \/ UciGo

SpecUci == InitUci /\ [][NextUci]_vars

\* the root of the last go command had exactly one legal move, or had
\* legal moves and a time manager that reports not_search
ShortcutRoot ==
    /\ uci.pc # "off"
    /\ uci.last.cmd = "Go"
    /\ LET b == uci.last.pre.board
       IN  \/ Len(MoveList(b)) = 1
           \/ Len(MoveList(b)) > 1 /\ ~NewPanics(uci.last.tc)
                  /\ NotSearch(uci.last.tc, white(b))

\* C17: a go on a root with exactly one legal move, or with a time
\* manager that reports not_search, returns that move at once: no search
\* is run, no info line is printed, and the stop flag and the aggregate
\* node counter are as before.
C17_ShortcutReturnsMove ==
    ShortcutRoot =>
        /\ uci.pc = "recv"
        /\ uci.last.ret = Some(MoveList(uci.last.pre.board)[1])
        /\ ~uci.last.ran
        /\ uci.last.out = <<"bestmove">>
        /\ stop = uci.last.pre.stop
        /\ nodes = uci.last.pre.nodes

\* C18: a go on a root without legal move runs no search, prints one
\* info line of depth 0 (score mate 0 in check, score cp 0 otherwise),
\* returns None, and no bestmove line is printed.
C18_NoMoveInfoLine ==
    (/\ uci.pc # "off"
     /\ uci.last.cmd = "Go"
     /\ MoveList(uci.last.pre.board) = <<>>)
    => /\ uci.pc = "recv"
       /\ ~uci.last.ran
       /\ uci.last.ret = Nothing
       /\ uci.last.out = IF Checked(uci.last.pre.board)
                         THEN <<"info depth 0 score mate 0 time 0">>
                         ELSE <<"info depth 0 score cp 0 time 0">>

GoTokens == Tail(uci.last.line)

Present(k) == \E i \in 1 .. Len(GoTokens) : GoTokens[i] = k

\* the first category, in the order depth, movetime, wtime/btime, nodes,
\* infinite, for which the command holds parameters
FirstCategory ==
    IF Present("depth") THEN "Depth"
    ELSE IF Present("movetime") THEN "MoveTime"
    ELSE IF Present("wtime") /\ Present("btime") THEN "DynamicTime"
    ELSE IF Present("nodes") THEN "Nodes"
    ELSE IF Present("infinite") THEN "Infinite"
    ELSE "none"

\* C19: a go command that parses selects its time control by the fixed
\* precedence depth, movetime, wtime/btime, nodes, infinite: the first
\* of these for which the command holds parameters wins, wherever its
\* tokens stand.
C19_GoPrecedence ==
    (uci.pc # "off" /\ uci.last.cmd = "Go") =>
        uci.last.tc.kind = FirstCategory

C24_QsMatedIffNoLegalMove ==
    (ab.pc = "ret" /\ ab.who = "qs" /\ ab.last # "stopped") =>
        LET board == BoardOf(ab.board)
        IN  (ab.last = "mated" /\ ab.val = mated_in(ab.ply))
              <=> (board.checkers /\ legal_moves(board) = {})

(* ------------------------------ clear ---------------------------------- *)
\* size_of::<Cell>(): three u64, three u16, aligned to 32
size_of_Cell == 32

MaxClearLen == 2
MaxClearThreads == 5
\* thread counts for which the chunk list alone is computed
MaxChunkThreads == 70

\* the bytes of slot i of a cell: d_i at 8 * i, k_i at 24 + 2 * i
SlotBytes(i) == (8 * i .. 8 * i + 7) \cup (24 + 2 * i .. 25 + 2 * i)

div_ceil(a, b) == (a + b - 1) \div b

\* mutant: every chunk has the full chunk size
ChunkLen_Full(chunk_size, total_bytes, chunk_offset) == chunk_size

\* chunk_size.min(total_bytes - chunk_offset)
ChunkLen(chunk_size, total_bytes, chunk_offset) ==
    Min(chunk_size, total_bytes - chunk_offset)

\* the chunks the loop over (0..total_bytes).step_by(chunk_size) hands out
RECURSIVE ChunkList(_, _, _)
ChunkList(total_bytes, chunk_size, chunk_offset) ==
    IF chunk_offset >= total_bytes THEN <<>>
    ELSE <<[start |-> chunk_offset,
            size |-> ChunkLen(chunk_size, total_bytes, chunk_offset)]>>
           \o ChunkList(total_bytes, chunk_size, chunk_offset + chunk_size)

\* a table whose every slot holds an entry of the current age
FullTable(len, ag) ==
    [c \in 1 .. len |->
       [i \in 1 .. ENTRIES_PER_CELL |->
          LET e == NewEntry(ZeroEntry, i, HFArgs(KA, Exact), ag)
          IN [d |-> DataWord(e), k |-> KeyWord(e)]]]

\* the slots of the table seen through its bytes: a slot whose bytes are
\* all zero is the empty slot
Decoded(cs, mem) ==
    [c \in 1 .. Len(cs) |->
       [i \in 1 .. ENTRIES_PER_CELL |->
          IF \A b \in SlotBytes(i - 1) : mem[(c - 1) * size_of_Cell + b] = 0
            THEN ZeroSlot ELSE cs[c][i]]]

clrrest == <<poolvars, tth, calls, written, panicked, issued, hf, abvars,
             unitvars, uci, lst, asp, nc, tm, tp,
             pvl>>

\* clear(threads) up to the scope of parallel_clear: total_bytes, chunk_size
ClearBegin ==
    /\ clr.pc = "idle"
    /\ LET total_bytes == Len(cells) * size_of_Cell
       IN clr' = [clr EXCEPT !.pc = "scope",
                             !.total_bytes = total_bytes,
                             !.chunk_size = div_ceil(total_bytes, clr.threads),
                             !.chunk_offset = 0]
    /\ UNCHANGED <<cells, age, clrrest>>

\* one turn of the loop over (0..total_bytes).step_by(chunk_size): a thread
\* is spawned for the chunk
ClearSpawn ==
    /\ clr.pc = "scope"
    /\ clr.chunk_offset < clr.total_bytes
    /\ LET size == ChunkLen(clr.chunk_size, clr.total_bytes, clr.chunk_offset)
           chunk == [start |-> clr.chunk_offset, size |-> size]
       IN clr' = [clr EXCEPT !.chunks = Append(clr.chunks, chunk),
                             !.pending = clr.pending \cup {Len(clr.chunks) + 1},
                             !.chunk_offset = clr.chunk_offset + clr.chunk_size]
    /\ UNCHANGED <<cells, age, clrrest>>

\* a spawned thread: ptr::write_bytes(start, 0, size)
ClearWrite ==
    /\ clr.pc = "scope"
    /\ \E n \in clr.pending :
         LET chunk == clr.chunks[n]
             hit == chunk.start .. chunk.start + chunk.size - 1
         IN clr' = [clr EXCEPT
                      !.pending = clr.pending \ {n},
                      !.mem = [b \in DOMAIN clr.mem |->
                                 IF b \in hit THEN 0 ELSE clr.mem[b]],
                      !.outside = clr.outside
                                    \/ \E b \in hit : b \notin DOMAIN clr.mem]
    /\ UNCHANGED <<cells, age, clrrest>>

\* the scope joins its threads; clear then stores age 0
ClearJoin ==
    /\ clr.pc = "scope"
    /\ clr.chunk_offset >= clr.total_bytes
    /\ clr.pending = {}
    /\ clr' = [clr EXCEPT !.pc = "done"]
    /\ cells' = Decoded(cells, clr.mem)
    /\ age' = 0
    /\ UNCHANGED clrrest

\* a table of 1 .. MaxClearLen cells, every slot in use, and a pool of
\* 1 .. MaxClearThreads threads (ThreadPool::resize keeps threads >= 1)
InitClear ==
    /\ PoolQuiet
    /\ ABQuiet
    /\ UnitsQuiet
    /\ UciQuiet
    /\ tth = [t \in TTThreads |-> IdleOp]
    /\ calls = {}
    /\ written = {}
    /\ panicked = FALSE
    /\ issued = 0
    /\ hf = HfIdle
    /\ lst = Off
    /\ asp = Off
    /\ nc = Off
    /\ tm = Off
    /\ tp = Off
    /\ pvl = Off
    /\ age \in {1, AGE_MASK}
    /\ \E len \in 1 .. MaxClearLen, threads \in 1 .. MaxClearThreads :
         /\ cells = FullTable(len, age)
         /\ clr = [pc |-> "idle", threads |-> threads, total_bytes |-> 0,
                   chunk_size |-> 0, chunk_offset |-> 0, chunks |-> <<>>,
                   pending |-> {}, outside |-> FALSE,
                   mem |-> [b \in 0 .. len * size_of_Cell - 1 |-> 1]]

NextClear == ClearBegin \/ ClearSpawn \/ ClearWrite \/ ClearJoin

SpecClear == InitClear /\ [][NextClear]_vars

ChunkBytes(n) ==
    clr.chunks[n].start .. clr.chunks[n].start + clr.chunks[n].size - 1

\* the chunks partition 0 .. total_bytes - 1, in at most threads chunks
Partition(chunks, total_bytes, threads) ==
    /\ Len(chunks) <= threads
    /\ \A n \in 1 .. Len(chunks) :
         /\ chunks[n].size >= 1
         /\ chunks[n].start = IF n = 1 THEN 0
                              ELSE chunks[n - 1].start + chunks[n - 1].size
    /\ chunks[Len(chunks)].start + chunks[Len(chunks)].size = total_bytes

\* C22: the chunks given to the clearing threads are pairwise disjoint and
\* lie inside the table's bytes, no byte outside is written, and when clear
\* is over the chunks cover every byte, every byte is zero, every slot is
\* empty and the age is 0; for every thread count up to MaxChunkThreads
\* (more threads than bytes included) the chunk list partitions the bytes.
C22_ClearZeroesAll ==
    clr.pc # "off" =>
      /\ \A m, n \in 1 .. Len(clr.chunks) :
           m # n => ChunkBytes(m) \cap ChunkBytes(n) = {}
      /\ \A n \in 1 .. Len(clr.chunks) : ChunkBytes(n) \subseteq DOMAIN clr.mem
      /\ ~clr.outside
      /\ clr.pc = "scope" =>
           \A threads \in 1 .. MaxChunkThreads :
             Partition(ChunkList(clr.total_bytes,
                                 div_ceil(clr.total_bytes, threads), 0),
                       clr.total_bytes, threads)
      /\ clr.pc = "done" =>
           /\ clr.chunks = ChunkList(clr.total_bytes, clr.chunk_size, 0)
           /\ UNION {ChunkBytes(n) : n \in 1 .. Len(clr.chunks)} = DOMAIN clr.mem
           /\ \A b \in DOMAIN clr.mem : clr.mem[b] = 0
           /\ cells = ZeroTable(Len(cells))
           /\ age = 0

\* a table of two cells cleared by five threads, the last chunk shorter
\* than the others
C22_Witness ==
    /\ clr.pc = "done"
    /\ clr.threads = MaxClearThreads
    /\ Len(cells) = MaxClearLen
    /\ Len(clr.chunks) = MaxClearThreads
    /\ clr.chunks[Len(clr.chunks)].size < clr.chunk_size

(* ------------------------------ stop sent before the search ------------ *)
\* uci_listener has sent a go command down the channel; uci_loop has not
\* yet taken it.  The flag is as the search before left it.
InitStop ==
    /\ phase = "idle"
    /\ stop \in BOOLEAN
    /\ nodes = 0
    /\ nworkers \in 0 .. 1
    /\ time_control \in {Infinite, Depth(IterCap(nworkers))}
    /\ nmoves \in 1 .. MaxMoves
    /\ elapsed = 0
    /\ th = [t \in Threads |-> NewThread(t)]
    /\ best_move = None
    /\ TTQuiet
    /\ ABQuiet
    /\ UnitsQuiet
    /\ UciQuiet
    /\ clr = Off
    /\ asp = Off
    /\ nc = Off
    /\ tm = Off
    /\ tp = Off
    /\ pvl = Off
    /\ lst = [pc |-> "on", sent |-> FALSE]

\* uci_listener reads "stop" after the go: stop.store(true)
ListenerStop ==
    /\ lst.pc = "on"
    /\ ~lst.sent
    /\ phase # "returned"
    /\ stop' = TRUE
    /\ lst' = [lst EXCEPT !.sent = TRUE]
    /\ UNCHANGED <<phase, nodes, time_control, nworkers, nmoves, elapsed, th,
                   best_move, ttvars, abvars, unitvars, uci, clr, asp, nc,
                   tm, tp, pvl>>

NextStop == NextSearch \/ ListenerStop

SpecStop == InitStop /\ [][NextStop]_vars

\* C23: once the listener has set the flag after reading the go command,
\* the search started by that go runs with the flag set, and what it
\* returns is a legal root move.
C23_StopNeverLost ==
    (lst.pc = "on" /\ lst.sent) =>
        /\ phase = "searching" => stop
        /\ phase = "returned" => best_move \in 1 .. nmoves

(* ------------------------------ one call of aspiration_window ---------- *)
\* root searches after which the walk is cut off (a call that ends needs
\* fewer)
MaxAspSearches == 9

\* thread.score when the call begins, and what the root search returns
PriorScores == {-MATE, 0, 31970, MATE}
RootScores ==
    {-MATE, -801, -800, -26, -25, -24, 0, 24, 25, 26, 800, 801, 31950, 31999,
     MATE}

asprest ==
    <<poolvars, ttvars, abvars, unitvars, uci, clr, lst, nc, tm, tp, pvl>>

\* aspiration_window up to its first root search
AspBegin ==
    /\ asp.pc = "call"
    /\ asp' = [asp EXCEPT !.pc = "run", !.r = BeginAspiration(asp.r)]
    /\ UNCHANGED asprest

\* alphabeta::<RootNode>, stop unset: a score, and the line of the root if
\* a move raised alpha
AspRoot ==
    /\ asp.pc = "run"
    /\ asp.r.pc = "hard"
    /\ asp.searches < MaxAspSearches
    /\ \E s \in RootScores :
         asp' = [asp EXCEPT !.searches = asp.searches + 1,
                            !.r = [asp.r EXCEPT
                                     !.rscore = s,
                                     !.root_pv = IF s > asp.r.alpha
                                                   THEN <<1>> ELSE <<>>,
                                     !.pc = "aspchk"]]
    /\ UNCHANGED asprest

\* the match on the score
AspMatch ==
    /\ asp.pc = "run"
    /\ asp.r.pc = "aspchk"
    /\ LET r == asp.r
       IN IF r.rscore <= r.alpha \/ r.rscore >= r.beta
            THEN asp' = [asp EXCEPT !.r = Widen(r)]
            ELSE asp' = [asp EXCEPT !.r = Commit(r), !.pc = "done"]
    /\ UNCHANGED asprest

\* an iteration of depth 4 (full window) or 5 (narrow window) begins, after
\* an iteration that left thread.score; completed and the line are the
\* former iteration's
InitAsp ==
    /\ PoolQuiet
    /\ TTQuiet
    /\ ABQuiet
    /\ UnitsQuiet
    /\ UciQuiet
    /\ clr = Off
    /\ lst = Off
    /\ nc = Off
    /\ tm = Off
    /\ tp = Off
    /\ pvl = Off
    /\ \E d \in {ASPIRATION_DEPTH_THRESHOLD - 1, ASPIRATION_DEPTH_THRESHOLD},
          s \in PriorScores :
         asp = [pc |-> "call", searches |-> 0,
                r |-> [NewThread(0) EXCEPT !.d = d, !.score = s,
                                           !.completed = d - 1,
                                           !.principal_variation = <<2>>]]

NextAsp == AspBegin \/ AspRoot \/ AspMatch

SpecAsp == InitAsp /\ [][NextAsp]_vars

FullWindow(r) == r.alpha = -INFINITY /\ r.beta = INFINITY

\* C25: a call of aspiration_window without stop makes at most 7 root
\* searches.  From depth 5 the first window is [S - 25, S + 25] cut to
\* [-INFINITY, INFINITY], below it the full window; a fail-low lowers alpha
\* alone by delta, a fail-high raises beta alone by delta, delta doubles
\* after each, and the window is full once delta >= MAX_DELTA; the first
\* score strictly inside the window commits the line and completed = depth.
C25_AspirationWindow ==
    /\ [](asp.pc # "off" => asp.searches <= 7)
    /\ [][asp.pc # "off" =>
            LET r == asp.r
                q == asp'.r
            IN  /\ asp.pc = "call" =>
                     /\ q.delta = ASPIRATION_MARGIN
                     /\ IF r.d >= ASPIRATION_DEPTH_THRESHOLD
                          THEN /\ q.alpha = Max(-INFINITY, r.score - 25)
                               /\ q.beta = Min(INFINITY, r.score + 25)
                          ELSE FullWindow(q)
                /\ (asp.pc = "run" /\ r.pc = "aspchk") =>
                     IF r.rscore <= r.alpha \/ r.rscore >= r.beta
                       THEN /\ asp'.pc = "run"
                            /\ q.delta = 2 * r.delta
                            /\ q.completed = r.completed
                            /\ q.principal_variation = r.principal_variation
                            /\ IF q.delta >= MAX_DELTA THEN FullWindow(q)
                               ELSE IF r.rscore <= r.alpha
                               THEN q.alpha = r.alpha - r.delta
                                    /\ q.beta = r.beta
                               ELSE q.alpha = r.alpha
                                    /\ q.beta = r.beta + r.delta
                       ELSE /\ asp'.pc = "done"
                            /\ q.completed = r.d
                            /\ q.principal_variation = r.root_pv]_vars

\* six failures in both directions, then the seventh search, in the full
\* window, commits
C25_Witness ==
    /\ asp.pc = "done"
    /\ asp.searches = 7
    /\ FullWindow(asp.r)
    /\ asp.r.d = ASPIRATION_DEPTH_THRESHOLD
    /\ asp.r.completed = ASPIRATION_DEPTH_THRESHOLD
    /\ asp.r.principal_variation = <<1>>

(* ------------------------------ node counters -------------------------- *)
\* stop_hard calls followed per thread, the nodes a thread may search in a
\* row between two of them, and the threads of the pool
MaxNodeCalls == 12
Stride == 1020
NcThreads == 0 .. 1

\* what a worker's Thread holds from the search before: nodes and the
\* buffer of its time manager
StaleCounts == {<<0, 0>>, <<1030, 1025>>}

ncrest == <<phase, time_control, nworkers, nmoves, elapsed, th, best_move,
            ttvars, abvars, unitvars, uci, clr, lst, asp, tm, tp, pvl>>

NcUpd(t, r) == nc' = [nc EXCEPT !.t[t] = r]

\* Thread::set_up in the spawned closure
NcSetUp(t) ==
    /\ nc.pc = "search"
    /\ nc.t[t].pc = "spawned"
    /\ NcUpd(t, [nc.t[t] EXCEPT !.pc = "run", !.nodes = 0, !.buffer = 0])
    /\ UNCHANGED <<stop, nodes, ncrest>>

\* mutant: the batch is folded one node early
FoldDue_Early(searched) == searched >= NODE_BATCH

\* searched > 1024
FoldDue(searched) == searched > NODE_BATCH

\* stop_hard(thread.nodes) at the entry of a node, at the root (k = 0)
\* or after push_move (k = 1), of a thread under TimeControl::Infinite or
\* Depth.  With k > 1 the thread has entered k - 1 nodes before it whose
\* stop_hard calls saw the flag clear and a delta within the batch: they
\* changed nothing but thread.nodes.
NcNode(t) ==
    /\ nc.pc = "search"
    /\ nc.t[t].pc = "run"
    /\ nc.t[t].calls < MaxNodeCalls
    /\ \E k \in {0, 1, Stride} :
         /\ k > 1 => ~stop /\ ~FoldDue(nc.t[t].nodes + k - 1 - nc.t[t].buffer)
         /\ LET r == [nc.t[t] EXCEPT !.nodes = @ + k, !.calls = @ + 1]
                searched == r.nodes - r.buffer
                fold == ~stop /\ FoldDue(searched)
            IN  /\ nodes' = IF fold THEN nodes + searched ELSE nodes
                /\ NcUpd(t, [r EXCEPT !.pc = IF stop THEN "stopped" ELSE @,
                                      !.buffer = IF fold THEN r.nodes ELSE @,
                                      !.polled = TRUE,
                                      !.seen = stop,
                                      !.folded = fold,
                                      !.searched = searched])
    /\ UNCHANGED <<stop, ncrest>>

\* iterative_deepening returns: the depths are used up, or stop_hard has
\* returned true and every frame has returned; the main thread's closure
\* then stores the flag
NcLeave(t) ==
    /\ nc.pc = "search"
    /\ nc.t[t].pc \in {"run", "stopped"}
    /\ NcUpd(t, [nc.t[t] EXCEPT !.pc = "done"])
    /\ stop' = IF t = 0 THEN MainStopValue ELSE stop
    /\ UNCHANGED <<nodes, ncrest>>

\* uci_listener on "stop"
NcListenerStop ==
    /\ nc.pc = "search"
    /\ ~stop
    /\ stop' = TRUE
    /\ UNCHANGED <<nodes, nc, ncrest>>

\* the scope of start_search joins the threads
NcJoin ==
    /\ nc.pc = "search"
    /\ \A t \in NcThreads : nc.t[t].pc = "done"
    /\ nc' = [nc EXCEPT !.pc = "joined"]
    /\ UNCHANGED <<stop, nodes, ncrest>>

\* start_search has stored stop = false and nodes = 0 and spawned the
\* threads; the main thread's time manager is new
InitNc ==
    /\ phase = "idle"
    /\ stop = FALSE
    /\ nodes = 0
    /\ time_control = Infinite
    /\ nworkers = 0
    /\ nmoves = 0
    /\ elapsed = 0
    /\ th = [t \in Threads |-> NewThread(t)]
    /\ best_move = None
    /\ TTQuiet
    /\ ABQuiet
    /\ UnitsQuiet
    /\ UciQuiet
    /\ clr = Off
    /\ lst = Off
    /\ asp = Off
    /\ tm = Off
    /\ tp = Off
    /\ pvl = Off
    /\ \E old \in StaleCounts :
         nc = [pc |-> "search",
               t |-> [t \in NcThreads |->
                        [pc |-> "spawned", calls |-> 0, polled |-> FALSE,
                         seen |-> FALSE, folded |-> FALSE, searched |-> 0,
                         nodes |-> old[1],
                         buffer |-> IF t = 0 THEN 0 ELSE old[2]]]]

NextNc ==
    \/ \E t \in NcThreads : NcSetUp(t) \/ NcNode(t) \/ NcLeave(t)
    \/ NcListenerStop
    \/ NcJoin

SpecNc == InitNc /\ [][NextNc]_vars

\* the threads that have run set_up in this search
NcStarted == {t \in NcThreads : nc.t[t].pc # "spawned"}

RECURSIVE NcSum(_, _)
NcSum(ts, field) ==
    IF ts = {} THEN 0
    ELSE LET t == CHOOSE x \in ts : TRUE
         IN  nc.t[t][field] + NcSum(ts \ {t}, field)

\* C26: once every search thread has finished and was joined, the shared
\* node counter equals the sum of the threads' local node counts.
C26_NodesExactAfterJoin ==
    (nc.pc = "joined") => nodes = NcSum(NcThreads, "nodes")

\* C27: a stop_hard call folds the thread's delta exactly when
\* local_nodes - buffer > 1024 and then has buffer = local_nodes; the
\* shared counter equals the sum of the buffers of the threads that have
\* set up, never exceeds the sum of their node counts, and no thread's
\* delta exceeds 1025.
C27_FoldAndBufferSum ==
    nc.pc # "off" =>
      /\ \A t \in NcStarted :
           /\ nc.t[t].polled =>
                (nc.t[t].folded <=> nc.t[t].searched > NODE_BATCH)
           /\ (nc.t[t].polled /\ nc.t[t].folded)
                => nc.t[t].buffer = nc.t[t].nodes
           /\ nc.t[t].nodes - nc.t[t].buffer <= NODE_BATCH + 1
      /\ nodes = NcSum(NcStarted, "buffer")
      /\ nodes <= NcSum(NcStarted, "nodes")

\* C27, amended: a stop_hard call folds exactly when it found the stop flag
\* clear and local_nodes - buffer > 1024; the rest as stated.
C27_FoldUnlessStopped ==
    nc.pc # "off" =>
      /\ \A t \in NcStarted :
           /\ nc.t[t].polled =>
                (nc.t[t].folded <=>
                   (~nc.t[t].seen /\ nc.t[t].searched > NODE_BATCH))
           /\ (nc.t[t].polled /\ nc.t[t].folded)
                => nc.t[t].buffer = nc.t[t].nodes
           /\ nc.t[t].nodes - nc.t[t].buffer <= NODE_BATCH + 1
      /\ nodes = NcSum(NcStarted, "buffer")
      /\ nodes <= NcSum(NcStarted, "nodes")

\* one thread has just folded its second batch, the other has found the
\* flag set with 1025 nodes unfolded
C27_Witness ==
    /\ nc.pc = "search"
    /\ \E t, u \in NcThreads :
         /\ nc.t[t].polled /\ nc.t[t].folded /\ nc.t[t].buffer > NODE_BATCH + 1
         /\ u # t
         /\ nc.t[u].pc = "stopped" /\ nc.t[u].searched = NODE_BATCH + 1
         /\ nc.t[u].buffer > 0
    /\ nodes > 2 * NODE_BATCH

(* ------------------------------ inserts of one thread, one after another *)
\* distinct inserts followed
MaxSeqInserts == 6

\* four keys of the first cell with different tags, a key of that cell
\* whose low 16 bits are zero, and a key of the other cell
K2 == Key(0, 0, 2)
K3 == Key(0, 0, 3)
K4 == Key(0, 0, 4)

SeqInserts ==
    {Args(k, 1, 17, 5, 9, LowerBound, FALSE, 2) : k \in {KA, K2, K3, K4, KZ, KD}}
        \cup {Args(KA, NullMove, 0, 0, 5, UpperBound, pv, 0) : pv \in BOOLEAN}
        \cup {Args(KA, 3, -4, 0, 0, Exact, FALSE, 0)}

SeqProbes == {KA, K2}

InitSeq ==
    /\ PoolQuiet
    /\ cells = ZeroTable(TableLen)
    /\ age \in {0, AGE_MASK}
    /\ tth = [t \in TTThreads |-> IdleOp]
    /\ calls = {}
    /\ written = {}
    /\ panicked = FALSE
    /\ issued = 0
    /\ hf = HfIdle
    /\ ABQuiet
    /\ UnitsQuiet
    /\ UciQuiet
    /\ AuxQuiet

NextSeq ==
    \/ /\ Cardinality(calls) < MaxSeqInserts
       /\ \E a \in SeqInserts : TTBeginInsert(1, a)
    \/ \E k \in SeqProbes : TTBeginProbe(1, k, 2)
    \/ TTStep(1)

SpecSeq == InitSeq /\ [][NextSeq]_vars

(* ------------------------------ claims: insert ------------------------- *)
\* the tag held in slot i of a cell
TagAt(cell, i) == cell[i].d.key

\* the slots of a cell whose tag is 0 or the given tag
Qualifying(cell, tag) ==
    {i \in 1 .. ENTRIES_PER_CELL : TagAt(cell, i) = 0 \/ TagAt(cell, i) = tag}

\* the first of them, the first slot of the cell when there is none
TargetSlot(cell, tag) ==
    IF Qualifying(cell, tag) = {} THEN 1
    ELSE CHOOSE i \in Qualifying(cell, tag) :
           \A j \in Qualifying(cell, tag) : i <= j

\* C28: insert touches at most one slot: of the cell of its key, the first
\* slot (in the order 0, 1, 2) whose tag is 0 or the key's tag, slot 0 when
\* there is none; the other slots of the cell and all other cells are
\* unchanged.
C28_InsertTouchesOneSlot ==
    [][\A c \in 1 .. Len(cells), i \in 1 .. ENTRIES_PER_CELL :
         cells'[c][i] # cells[c][i] =>
           /\ tth[1].pc \in {"s_d", "s_k"}
           /\ c = CellOf(tth[1].a.key)
           /\ i = TargetSlot(cells[c], wrap_key(tth[1].a.key))]_vars

\* an insert is about to store into slot 0 of a cell none of whose slots
\* holds 0 or the key's tag
C28_Witness ==
    /\ tth[1].pc = "s_d"
    /\ tth[1].store_index = 0
    /\ Qualifying(cells[CellOf(tth[1].a.key)], wrap_key(tth[1].a.key)) = {}

\* the condition under which an insert with arguments a stores
Replaces(cs, a) ==
    LET cell == cs[index(a.key, Len(cs)) + 1]
        i == TargetSlot(cell, wrap_key(a.key))
    IN  \/ TagAt(cell, i) # wrap_key(a.key)
        \/ a.bound = Exact /\ PackedBound(cell[i].k.data) # Exact
        \/ a.depth + 4 + 2 * (IF a.pv_node THEN 1 ELSE 0) > cell[i].k.depth

\* C29: insert writes the chosen slot if and only if the slot's tag differs
\* from the key's tag, or the new bound is Exact while the stored bound is
\* not, or depth + 4 + 2 * pv_node > stored depth; otherwise the table is
\* unchanged.
C29_WriteIffReplaces ==
    [][/\ (tth[1].pc = "i_k" /\ tth'[1].pc = "s_d") => Replaces(cells, tth[1].a)
       /\ (tth[1].pc = "i_k" /\ tth'[1].pc = "idle")
            => (~Replaces(cells, tth[1].a) /\ tth'[1].res.kind = "kept")
       /\ cells' # cells => tth[1].pc \in {"s_d", "s_k"}
       /\ (tth[1].pc = "s_k" /\ tth'[1].pc = "idle")
            => LoadSlot(cells'[CellOf(tth[1].a.key)],
                        TargetSlot(cells[CellOf(tth[1].a.key)],
                                   wrap_key(tth[1].a.key))) = tth[1].new]_vars

\* an insert for a stored tag has returned without storing: the stored
\* entry is as deep as depth + 4, and the table holds an Exact entry that
\* replaced a deeper one
C29_Witness ==
    /\ tth[1].pc = "idle"
    /\ tth[1].res.kind = "kept"
    /\ \E i \in 1 .. ENTRIES_PER_CELL :
         /\ TagAt(cells[1], i) = wrap_key(KA)
         /\ PackedBound(cells[1][i].k.data) = Exact
         /\ cells[1][i].k.depth = 0
    /\ \E a \in calls : a.key = KA /\ a.depth = 9

\* C30: after any sequence or interleaving of inserts no cell holds the
\* same non-zero tag in two of its slots.
C30_NoDuplicateTag ==
    \A c \in 1 .. Len(cells) : \A i, j \in 1 .. ENTRIES_PER_CELL :
        (i # j /\ TagAt(cells[c], i) # 0)
            => TagAt(cells[c], i) # TagAt(cells[c], j)

(* ------------------------------ u64 arithmetic -------------------------- *)
\* a u64 is held as its four 16-bit limbs, the least significant first
Limb == 65536

u64(n) == <<n % Limb, (n \div Limb) % Limb, 0, 0>>

U64Max == <<Limb - 1, Limb - 1, Limb - 1, Limb - 1>>

\* a <= b
LeqU(a, b) ==
    \/ a = b
    \/ \E i \in 1 .. 4 : a[i] < b[i] /\ \A j \in (i + 1) .. 4 : a[j] = b[j]

MaxU(a, b) == IF LeqU(a, b) THEN b ELSE a
MinU(a, b) == IF LeqU(a, b) THEN a ELSE b

\* a + b: the low 64 bits, and whether bits were lost
AddU(a, b) ==
    LET s1 == a[1] + b[1]
        s2 == a[2] + b[2] + (s1 \div Limb)
        s3 == a[3] + b[3] + (s2 \div Limb)
        s4 == a[4] + b[4] + (s3 \div Limb)
    IN  [v |-> <<s1 % Limb, s2 % Limb, s3 % Limb, s4 % Limb>>,
         overflow |-> s4 \div Limb # 0]

\* a * c for a constant c: the low 64 bits, and whether bits were lost
MulU(a, c) ==
    LET p1 == a[1] * c
        p2 == a[2] * c + (p1 \div Limb)
        p3 == a[3] * c + (p2 \div Limb)
        p4 == a[4] * c + (p3 \div Limb)
    IN  [v |-> <<p1 % Limb, p2 % Limb, p3 % Limb, p4 % Limb>>,
         overflow |-> p4 \div Limb # 0]

\* a / d for a divisor 0 < d < 2^15
DivU(a, d) ==
    LET r4 == a[4]
        r3 == (r4 % d) * Limb + a[3]
        r2 == (r3 % d) * Limb + a[2]
        r1 == (r2 % d) * Limb + a[1]
    IN  <<r1 \div d, r2 \div d, r3 \div d, r4 \div d>>

\* a.saturating_sub(c) for a constant c < 2^16
SatSubU(a, c) ==
    IF LeqU(a, u64(c)) THEN u64(0)
    ELSE LET b1 == IF a[1] < c THEN 1 ELSE 0
             b2 == IF a[2] < b1 THEN 1 ELSE 0
             b3 == IF a[3] < b2 THEN 1 ELSE 0
         IN  <<a[1] + b1 * Limb - c, a[2] + b2 * Limb - b1,
               a[3] + b3 * Limb - b2, a[4] - b3>>

(* ------------------------------ calculate_time on u64 ------------------- *)
\* mutant: the soft limit is not capped by the hard limit
SoftBase_Available(hard_time, max_time) == max_time

\* hard_time.min(max_time)
SoftBase(hard_time, max_time) == MinU(hard_time, max_time)

\* calculate_time on the whole of u64; movestogo is Nothing or Some(k) with
\* k < 2^15.  A division by zero panics; an overflowing multiplication
\* panics in a build with overflow checks and wraps in one without.
calculate_time_u64(remaining, increment, movestogo, checks) ==
    LET max_time == SatSubU(remaining, MOVE_OVERHEAD)
        by_zero == movestogo # Nothing /\ movestogo[1] = 0
        inc == MulU(increment, INCREMENT_TIME_BASE)
        share == AddU(DivU(max_time, DEFAULT_MOVESTOGO), DivU(inc.v, 100))
        limit_time == IF movestogo # Nothing
                      THEN DivU(max_time, IF by_zero THEN 1 ELSE movestogo[1])
                      ELSE share.v
        lost1 == movestogo = Nothing /\ (inc.overflow \/ share.overflow)
        hard_time == MaxU(limit_time, u64(MINIMUM_TIME))
        base == MulU(SoftBase(hard_time, max_time), OPTIMAL_TIME_BASE)
        soft_time == MaxU(DivU(base.v, 100), u64(MINIMUM_TIME))
        lost == lost1 \/ base.overflow
    IN  [panics |-> by_zero \/ (checks /\ lost), wrapped |-> lost,
         max |-> max_time, soft |-> soft_time, hard |-> hard_time]

\* the times and increments a go command may carry
TimeValues ==
    {u64(0), u64(20), u64(MOVE_OVERHEAD), u64(MOVE_OVERHEAD + 1), u64(80),
     u64(1250), u64(60000), u64(3600000),
     <<0, 0, 1, 0>>, <<0, 0, 0, 1008>>, <<0, 0, 0, 1009>>,
     <<0, 0, 0, 771>>, <<0, 0, 0, 772>>, U64Max}

MovesToGo == {Nothing, Some(0), Some(1), Some(2), Some(DEFAULT_MOVESTOGO)}

timerest ==
    <<poolvars, ttvars, abvars, unitvars, uci, clr, lst, asp, nc, tp, pvl>>

InitTime ==
    /\ PoolQuiet
    /\ TTQuiet
    /\ ABQuiet
    /\ UnitsQuiet
    /\ UciQuiet
    /\ clr = Off
    /\ lst = Off
    /\ asp = Off
    /\ nc = Off
    /\ tp = Off
    /\ pvl = Off
    /\ \E remaining \in TimeValues, increment \in TimeValues,
          movestogo \in MovesToGo, checks \in BOOLEAN :
         tm = [pc |-> "go", remaining |-> remaining, increment |-> increment,
               movestogo |-> movestogo, checks |-> checks,
               panics |-> FALSE, wrapped |-> FALSE, max |-> u64(0),
               soft |-> u64(0), hard |-> u64(0)]

\* TimeManager::new for a DynamicTime control: the call of calculate_time
TimeNew ==
    /\ tm.pc = "go"
    /\ LET r == calculate_time_u64(tm.remaining, tm.increment, tm.movestogo,
                                   tm.checks)
       IN  tm' = [tm EXCEPT !.pc = IF r.panics THEN "panicked" ELSE "built",
                            !.panics = r.panics, !.wrapped = r.wrapped,
                            !.max = r.max,
                            !.soft = IF r.panics THEN @ ELSE r.soft,
                            !.hard = IF r.panics THEN @ ELSE r.hard]
    /\ UNCHANGED timerest

NextTime == TimeNew

SpecTime == InitTime /\ [][NextTime]_vars

\* C36: for movestogo k >= 1 or none, the hard limit never exceeds the
\* time available for the move, remaining - MOVE_OVERHEAD (saturating).
C36_HardWithinAvailable ==
    (tm.pc = "built") => LeqU(tm.hard, tm.max)

\* C37: for movestogo k >= 1 or none, the limits calculate_time returns
\* satisfy MINIMUM_TIME <= soft <= hard.
C37_SoftWithinHard ==
    (tm.pc = "built") =>
        /\ LeqU(u64(MINIMUM_TIME), tm.soft)
        /\ LeqU(tm.soft, tm.hard)

\* limits were returned although the product for the soft limit wrapped
C37_Witness ==
    /\ tm.pc = "built"
    /\ tm.wrapped
    /\ tm.movestogo = Some(1)
    /\ tm.hard = tm.max
    /\ ~LeqU(tm.soft, u64(MINIMUM_TIME))

\* C38: for every go command that parses, movestogo 0 included, building
\* the time manager completes and yields the two limits, without a
\* division by zero or an arithmetic overflow.
C38_TimeManagerBuilt ==
    /\ tm.pc # "panicked"
    /\ (tm.pc = "built") => ~tm.wrapped

\* ---------------------------------------------------------------------
\* The thread pool resized (thread.rs 107-138)
\* ---------------------------------------------------------------------

MaxPoolThreads == 4
MaxResizes == 3
KillerStates == 0 .. 2

tprest == <<poolvars, ttvars, abvars, unitvars, uci, clr, lst, asp, nc, tm,
              pvl>>

\* Thread::smp: a fresh thread, nothing searched yet
smp(id) == [id |-> id, killer |-> 0]

\* the id handed to the first worker resize_with creates
FirstNewId_Current(current_size) == current_size

FirstNewId(current_size) == current_size + 1

\* ThreadPool::new
InitResize ==
    /\ PoolQuiet
    /\ TTQuiet
    /\ ABQuiet
    /\ UnitsQuiet
    /\ UciQuiet
    /\ clr = Off
    /\ lst = Off
    /\ asp = Off
    /\ nc = Off
    /\ tm = Off
    /\ pvl = Off
    /\ tp = [pc |-> "pool", main |-> smp(0), pool |-> <<>>, threads |-> 1,
             resizes |-> 0, last |-> 0, op |-> "new"]

\* ThreadPool::resize(threads): drain, resize_with, a fresh main thread
PoolResize(threads) ==
    /\ tp.pc = "pool"
    /\ tp.resizes < MaxResizes
    /\ LET desired_size == IF threads = 0 THEN 0 ELSE threads - 1
           current_size == Len(tp.pool)
           id == FirstNewId(current_size)
       IN  tp' = [tp EXCEPT
                    !.pool = [i \in 1 .. desired_size |->
                                IF i <= current_size
                                THEN tp.pool[i]
                                ELSE smp(id + (i - current_size - 1))],
                    !.main = smp(0),
                    !.threads = IF threads > 1 THEN threads ELSE 1,
                    !.resizes = @ + 1,
                    !.last = threads,
                    !.op = "resize"]
    /\ UNCHANGED tprest

\* a search run by start_search: set_up keeps each thread's killer table
\* and the search stores into it
PoolSearch ==
    /\ tp.pc = "pool"
    /\ \E km \in KillerStates, kw \in [1 .. Len(tp.pool) -> KillerStates] :
         tp' = [tp EXCEPT
                  !.main = [@ EXCEPT !.killer = km],
                  !.pool = [i \in 1 .. Len(tp.pool) |->
                              [tp.pool[i] EXCEPT !.killer = kw[i]]],
                  !.op = "search"]
    /\ UNCHANGED tprest

NextResize ==
    \/ \E threads \in 0 .. MaxPoolThreads : PoolResize(threads)
    \/ PoolSearch

SpecResize == InitResize /\ [][NextResize]_vars

MaxOne(n) == IF n > 1 THEN n ELSE 1

\* C39: after any sequence of resize(N) calls the pool holds max(N,1) - 1
\* workers, threads is max(N,1), the main thread has id 0, worker i
\* (counted from 1) has id i, and a resize leaves the surviving workers
\* as they were.
C39_ResizeShape ==
    /\ [](tp.resizes > 0 =>
            /\ Len(tp.pool) = MaxOne(tp.last) - 1
            /\ tp.threads = MaxOne(tp.last)
            /\ tp.main.id = 0
            /\ \A i \in 1 .. Len(tp.pool) : tp.pool[i].id = i)
    /\ [][tp'.resizes > tp.resizes =>
            \A i \in 1 .. Len(tp.pool) :
                i <= Len(tp'.pool) => tp'.pool[i] = tp.pool[i]]_vars

\* a pool shrunk and grown again: a survivor that has searched next to a
\* fresh worker
C39_Witness ==
    /\ tp.op = "resize"
    /\ tp.resizes = 3
    /\ tp.last = 4
    /\ Len(tp.pool) = 3
    /\ tp.pool[1].killer = 2
    /\ tp.pool[3].killer = 0
    /\ tp.pool[3].id = 3

\* ---------------------------------------------------------------------
\* The principal variation (search.rs 73-132)
\* ---------------------------------------------------------------------

PvMoves == 1 .. 2
PvVaried == 2

pvrest == <<poolvars, ttvars, abvars, unitvars, uci, clr, lst, asp, nc, tm,
            tp>>

\* PrincipalVariation::default: MAX_PLY null moves, length 0
DefaultPv == [moves |-> [i \in 0 .. MAX_PLY - 1 |-> NullMove], len |-> 0]

\* PrincipalVariation::push
pv_push(line, mv) ==
    IF line.len < MAX_PLY
    THEN [moves |-> [line.moves EXCEPT ![line.len] = mv], len |-> line.len + 1]
    ELSE line

\* PrincipalVariation::clear
pv_clear(line) == [line EXCEPT !.len = 0]

\* PrincipalVariation::push_line: clear, push, the length set from the
\* child, then the child's moves copied into moves[1..=old.len]; the range
\* is bounds-checked against the MAX_PLY entries of the array
push_line(line, mv, old) ==
    LET pushed == pv_push(pv_clear(line), mv)
        sized == [pushed EXCEPT !.len = old.len + 1]
    IN  IF old.len + 1 > MAX_PLY
        THEN [line |-> sized, panics |-> TRUE]
        ELSE [line |-> [sized EXCEPT !.moves =
                          [i \in 0 .. MAX_PLY - 1 |->
                             IF i >= 1 /\ i <= old.len
                             THEN old.moves[i - 1]
                             ELSE sized.moves[i]]],
              panics |-> FALSE]

\* a node's line, empty or left over from an earlier best move, and the
\* empty line of its child
InitPv ==
    /\ PoolQuiet
    /\ TTQuiet
    /\ ABQuiet
    /\ UnitsQuiet
    /\ UciQuiet
    /\ clr = Off
    /\ lst = Off
    /\ asp = Off
    /\ nc = Off
    /\ tm = Off
    /\ tp = Off
    /\ \E node \in {DefaultPv, pv_push(pv_push(DefaultPv, 2), 2)} :
         pvl = [pc |-> "child", node |-> node, child |-> DefaultPv, mv |-> 0]

\* the child's line grows by one move
ChildPush(mv) ==
    /\ pvl.pc = "child"
    /\ pvl.child.len < PvVaried \/ pvl.child.len = MAX_PLY - 1 \/ mv = 1
    /\ pvl' = [pvl EXCEPT !.child = pv_push(@, mv)]
    /\ UNCHANGED pvrest

\* node_pv.push_line(best_move, child_pv)
PushLine(mv) ==
    /\ pvl.pc = "child"
    /\ LET r == push_line(pvl.node, mv, pvl.child)
       IN  pvl' = [pvl EXCEPT !.pc = IF r.panics THEN "panicked" ELSE "done",
                              !.node = r.line,
                              !.mv = mv]
    /\ UNCHANGED pvrest

NextPv ==
    \/ \E mv \in PvMoves : ChildPush(mv)
    \/ \E mv \in PvMoves : PushLine(mv)

SpecPv == InitPv /\ [][NextPv]_vars

\* C40: for every child line of length 0..=MAX_PLY, push_line(m, child)
\* completes with m first, the child's moves after it and the length
\* child.len + 1, and the length never exceeds MAX_PLY.
C40_PushLineWithinCapacity ==
    /\ pvl.pc # "panicked"
    /\ (pvl.pc = "done") =>
          /\ pvl.node.moves[0] = pvl.mv
          /\ \A i \in 1 .. pvl.child.len :
                pvl.node.moves[i] = pvl.child.moves[i - 1]
          /\ pvl.node.len = pvl.child.len + 1
          /\ pvl.node.len <= MAX_PLY

\* ---------------------------------------------------------------------
\* The time manager polled (timer.rs 159-275)
\* ---------------------------------------------------------------------

MaxPollNodes == 6
MaxOtherNodes == 2050

pollrest == <<poolvars, ttvars, abvars, unitvars, uci, clr, lst, asp, nc, tp,
              pvl>>

\* Duration::from_millis on a value below 2^31
from_millis(u) == u[1] + Limb * u[2]

\* TimeManager::new: the limits by time-control variant
TimeManager_new(tc, is_white) ==
    LET limits ==
          CASE tc.kind = "MoveTime" ->
                 [soft |-> tc.v - Min(MOVE_OVERHEAD, tc.v),
                  hard |-> tc.v - Min(MOVE_OVERHEAD, tc.v)]
            [] tc.kind = "DynamicTime" ->
                 LET remaining == IF is_white THEN tc.wtime ELSE tc.btime
                     inc == IF is_white THEN tc.winc ELSE tc.binc
                     increment == IF inc # Nothing THEN inc[1] ELSE 0
                     r == calculate_time_u64(u64(remaining), u64(increment),
                                             tc.movestogo, FALSE)
                 IN  [soft |-> from_millis(r.soft),
                      hard |-> from_millis(r.hard)]
            [] OTHER -> [soft |-> 0, hard |-> 0]
    IN  [time_control |-> tc, soft |-> limits.soft, hard |-> limits.hard,
         buffer |-> 0]

\* mutant: the hard poll of MoveTime compares with the soft limit
past_time_Overhead(el, time) == el >= time - Min(MOVE_OVERHEAD, time)

\* self.elapsed().as_millis() as u64 >= time
past_time(el, time) == el >= time

\* TimeManager::stop_soft with the flag, the clock and the shared counter
\* it reads
stop_soft(m, flag, el, counter) ==
    IF flag
    THEN [ret |-> TRUE, flag |-> flag]
    ELSE LET tc == m.time_control
             fired == CASE tc.kind \in {"MoveTime", "DynamicTime"} ->
                            el >= m.soft
                       [] tc.kind = "Nodes" -> counter >= tc.v
                       [] OTHER -> FALSE
         IN  [ret |-> fired, flag |-> StopStore(fired, flag)]

\* TimeManager::stop_hard(nodes); late is the flag as a second load finds
\* it, set or not by another thread since the first load
stop_hard(m, flag, el, counter, searched_nodes, late) ==
    IF flag
    THEN [ret |-> TRUE, flag |-> flag, counter |-> counter,
          buffer |-> m.buffer]
    ELSE LET tc == m.time_control
             searched == searched_nodes - m.buffer
             folded == IF FoldDue(searched) THEN counter + searched
                       ELSE counter
             fired == CASE tc.kind \in {"Depth", "Infinite"} -> late
                       [] tc.kind = "MoveTime" -> past_time(el, tc.v)
                       [] tc.kind = "DynamicTime" -> el >= m.hard
                       [] tc.kind = "Nodes" -> folded >= tc.v
         IN  [ret |-> fired, flag |-> StopStore(fired, late),
              counter |-> folded,
              buffer |-> IF FoldDue(searched) THEN searched_nodes ELSE m.buffer]

\* the time controls a go command may ask for
PollControls ==
    {Depth(3), Infinite, MoveTime(0), MoveTime(20), MoveTime(MOVE_OVERHEAD),
     MoveTime(MOVE_OVERHEAD + 2), MoveTime(1000),
     DynamicTime(80, 80, Nothing, Nothing, Nothing),
     DynamicTime(1250, 60000, Nothing, Some(1250), Some(2)),
     Nodes(0), Nodes(NODE_BATCH + 1), Nodes(NODE_BATCH + 2)}

\* the instants around the limits of a manager
ClockPoints(m) ==
    {p \in {m.soft - 1, m.soft, m.hard - 1, m.hard,
            m.time_control.v - 1, m.time_control.v,
            m.time_control.v + 1} : p > 0}

\* start_search: the flag and the counter cleared, a new time manager
InitPoll ==
    /\ PoolQuiet
    /\ TTQuiet
    /\ ABQuiet
    /\ UnitsQuiet
    /\ UciQuiet
    /\ clr = Off
    /\ lst = Off
    /\ asp = Off
    /\ nc = Off
    /\ tp = Off
    /\ pvl = Off
    /\ \E tc \in PollControls, is_white \in BOOLEAN :
         tm = [pc |-> "poll", mgr |-> TimeManager_new(tc, is_white),
               stop |-> FALSE, counter |-> 0, el |-> 0, nodes |-> 0,
               calls |-> 0, turn |-> FALSE, op |-> "none", ret |-> FALSE,
               late |-> FALSE]

\* the loop of iterative_deepening asks stop_soft
PollSoft ==
    /\ tm.pc = "poll"
    /\ LET r == stop_soft(tm.mgr, tm.stop, tm.el, tm.counter)
       IN  tm' = [tm EXCEPT !.stop = r.flag, !.ret = r.ret, !.op = "soft",
                            !.late = FALSE, !.turn = ~@]
    /\ UNCHANGED pollrest

\* a node asks stop_hard with the thread's node count
PollHard ==
    /\ tm.pc = "poll"
    /\ \E late \in IF tm.stop THEN {TRUE} ELSE BOOLEAN :
         LET r == stop_hard(tm.mgr, tm.stop, tm.el, tm.counter, tm.nodes,
                            late)
         IN  tm' = [tm EXCEPT !.stop = r.flag \/ late, !.ret = r.ret,
                              !.op = "hard", !.late = late /\ ~tm.stop,
                              !.counter = r.counter,
                              !.mgr = [@ EXCEPT !.buffer = r.buffer],
                              !.turn = ~@]
    /\ UNCHANGED pollrest

\* the thread searches k more nodes
PollSearch(k) ==
    /\ tm.pc = "poll"
    /\ tm.calls < MaxPollNodes
    /\ tm' = [tm EXCEPT !.nodes = @ + k, !.calls = @ + 1]
    /\ UNCHANGED pollrest

\* another thread folds a batch into the shared counter
PollOtherFold ==
    /\ tm.pc = "poll"
    /\ tm.counter + NODE_BATCH + 1 <= MaxOtherNodes
    /\ tm' = [tm EXCEPT !.counter = @ + NODE_BATCH + 1]
    /\ UNCHANGED pollrest

\* the clock moves on to a later instant
PollTick ==
    /\ tm.pc = "poll"
    /\ \E p \in ClockPoints(tm.mgr) :
         /\ p > tm.el
         /\ tm' = [tm EXCEPT !.el = p]
    /\ UNCHANGED pollrest

\* the listener or the main thread stores the flag
PollStop ==
    /\ tm.pc = "poll"
    /\ ~tm.stop
    /\ tm' = [tm EXCEPT !.stop = TRUE]
    /\ UNCHANGED pollrest

NextPoll ==
    \/ PollSoft
    \/ PollHard
    \/ \E k \in {1, Stride} : PollSearch(k)
    \/ PollOtherFold
    \/ PollTick
    \/ PollStop

SpecPoll == InitPoll /\ [][NextPoll]_vars

\* when a poll fires, by variant, clock and shared counter
PollTable(op, m, el, counter) ==
    LET tc == m.time_control
    IN  CASE tc.kind \in {"Depth", "Infinite"} -> FALSE
          [] tc.kind = "MoveTime" ->
               IF op = "soft" THEN el >= tc.v - Min(50, tc.v) ELSE el >= tc.v
          [] tc.kind = "DynamicTime" ->
               IF op = "soft" THEN el >= m.soft ELSE el >= m.hard
          [] tc.kind = "Nodes" -> counter >= tc.v

\* C35: a poll that finds the flag set reports it; one that finds it clear
\* fires exactly by the table of the variants (never under Depth and
\* Infinite, where the flag is set only by another thread), and the flag
\* is set after a poll that fires.
C35_PollsByVariant ==
    [][tm'.turn # tm.turn =>
         LET fires == PollTable(tm'.op, tm.mgr, tm.el, tm'.counter)
             plain == tm.mgr.time_control.kind \in {"Depth", "Infinite"}
         IN  /\ tm.stop => tm'.ret /\ tm'.stop /\ tm'.counter = tm.counter
             /\ ~tm.stop =>
                   /\ tm'.ret = (fires \/ (plain /\ tm'.late))
                   /\ tm'.stop = (fires \/ tm'.late)
                   /\ fires => tm'.stop]_vars

\* the hard poll of Nodes fired on the batch it had just folded
C35_Witness ==
    /\ tm.pc = "poll"
    /\ tm.op = "hard"
    /\ tm.ret
    /\ ~tm.late
    /\ tm.stop
    /\ tm.mgr.time_control = Nodes(NODE_BATCH + 1)
    /\ tm.counter = NODE_BATCH + 1
    /\ tm.mgr.buffer = NODE_BATCH + 1

============================================================================
